---- MODULE Spec2Model ----
(***************************************************************************)
(* LCD Character Creator (src/unnamed/part_001, the App with the saved     *)
(* list; src/unnamed/part_002 is the variant without it).                  *)
(*                                                                         *)
(* Representation.                                                         *)
(*  - A JS array is a TLA+ sequence: index i of the source is i+1 here.    *)
(*  - The bitmap token (the r field) is a JS string modelled as the        *)
(*    sequence of its UTF-16 code units; names, ids and enumeration names  *)
(*    are TLA+ strings.                                                    *)
(*  - A JS scalar of unknown type is a record [t, fin, x2, e, s]: for a    *)
(*    number, when fin the value is (x2/2) / 10^e, with e = 0 for the      *)
(*    half-integers and the integers below 10^9 in magnitude, and          *)
(*    otherwise x2/2 an integer that is no multiple of 10 (e > 0: a        *)
(*    decimal fraction of e places; e < 0: an integer of ten digits or     *)
(*    more); when ~fin x2 is 0 for NaN, 1 for +Infinity, -1 for            *)
(*    -Infinity.  These are the numbers of at most nine significant        *)
(*    digits; from 10^-314 up to the largest double, a double tells them   *)
(*    apart and prints them back digit for digit.                          *)
(*    Row values held by the program are plain integers; Num(n) is the JS  *)
(*    number of the integer n.                                             *)
(***************************************************************************)
EXTENDS Integers, Sequences, FiniteSets, TLC

VARIABLES
  phase,           \* "mount" before the load effect has run, then "ready"
  color, interfacing, datatype,   \* useState settings (JS scalars)
  history,         \* useState history: [past, present, future]
  saves, selectedSaveId,          \* useState saved list and selection
  store,           \* localStorage 'lcdcc:saves'
  url,             \* the page's search fields r, c, i, t
  view,            \* the state captured by the last render (what closures read)
  dragging, paintValue,           \* useRef values
  nextId, clock,   \* makeId() counter; last value read from Date.now()
  pending,         \* file reads started and not yet completed
  imports, alerts, \* files chosen so far, messages shown by alert() so far
  events,          \* events handled so far
  last,            \* the last operation on the history (see Did)
  probe            \* harness of the pure-function specification

ROWS == 8
COLS == 5

\* '0123456789ABCDEFGHIJKLMNOPQRSTUV' as UTF-16 code units
BASE32 ==
  << 48, 49, 50, 51, 52, 53, 54, 55, 56, 57,
     65, 66, 67, 68, 69, 70, 71, 72, 73, 74, 75, 76, 77, 78, 79, 80,
     81, 82, 83, 84, 85, 86 >>

Min(a, b) == IF a < b THEN a ELSE b
Max(a, b) == IF a > b THEN a ELSE b

\* ---------------------------------------------------------------------
\* JS values (scalars): t is the typeof tag; a number carries fin, x2 and e,
\* a boolean carries x2 = 2 for true, a string carries s.
\* ---------------------------------------------------------------------
Num(n) == [t |-> "number", fin |-> TRUE, x2 |-> 2 * n, e |-> 0, s |-> ""]
Half(n2) == [t |-> "number", fin |-> TRUE, x2 |-> n2, e |-> 0, s |-> ""]
NaN == [t |-> "number", fin |-> FALSE, x2 |-> 0, e |-> 0, s |-> ""]
PosInfinity == [t |-> "number", fin |-> FALSE, x2 |-> 1, e |-> 0, s |-> ""]
NegInfinity == [t |-> "number", fin |-> FALSE, x2 |-> -1, e |-> 0, s |-> ""]
Str(str) == [t |-> "string", fin |-> FALSE, x2 |-> 0, e |-> 0, s |-> str]
Undefined == [t |-> "undefined", fin |-> FALSE, x2 |-> 0, e |-> 0, s |-> ""]
Null == [t |-> "null", fin |-> FALSE, x2 |-> 0, e |-> 0, s |-> ""]

\* the number of decimal digits of the integer m
DigitCount(m) == Len(ToString(IF m < 0 THEN -m ELSE m))

\* the number m * 10^exp10 for integers m and exp10, in the unique form
\* described above
RECURSIVE Decimal(_, _)
Decimal(m, exp10) ==
  IF m = 0 THEN Num(0)
  ELSE IF m % 10 = 0 THEN Decimal(m \div 10, exp10 + 1)
  ELSE IF exp10 >= 0 /\ DigitCount(m) + exp10 <= 9 THEN Num(m * 10 ^ exp10)
  ELSE IF exp10 = -1 /\ m % 5 = 0 THEN Half(m \div 5)
  ELSE [t |-> "number", fin |-> TRUE, x2 |-> 2 * m, e |-> -exp10, s |-> ""]

\* the closed value sets of the three settings
Colors == { Str("green"), Str("blue") }
Interfacings == { Str("parallel"), Str("i2c") }
DataTypes == { Str("bin"), Str("hex") }

\* Number.isFinite: false for every non-number, no coercion
NumberIsFinite(v) == v.t = "number" /\ v.fin

\* Math.trunc: toward zero
MathTrunc(v) ==
  IF v.e >= 10 THEN 0  \* below 1 in magnitude: x2/2 has nine digits or fewer
  ELSE IF v.e < 0 THEN (v.x2 \div 2) * 10 ^ (-v.e)
  ELSE IF v.x2 >= 0 THEN v.x2 \div (2 * 10 ^ v.e) ELSE -((-v.x2) \div (2 * 10 ^ v.e))

\* variant of clampRowValue without the upper limit
clampRowValue_NoUpper(v) ==
  IF ~NumberIsFinite(v) THEN 0 ELSE Max(0, MathTrunc(v))

\* variant of clampRowValue that lets non-finite input through Math.trunc
clampRowValue_NoFiniteTest(v) ==
  Max(0, Min(31, IF v.fin THEN MathTrunc(v) ELSE 32 * v.x2))

\* (a number with e < 0 has ten digits or more: its limit is decided by its
\* sign, without writing the digits out)
clampRowValue(v) ==
  IF ~NumberIsFinite(v) THEN 0
  ELSE IF v.e < 0 THEN (IF v.x2 < 0 THEN 0 ELSE 31)
  ELSE Max(0, Min(31, MathTrunc(v)))

emptyRows == [i \in 1..ROWS |-> 0]

\* ---------------------------------------------------------------------
\* Bitmap codec
\* ---------------------------------------------------------------------
\* 1 << k
Pow2(k) == 2 ^ k

\* (x >> bitIndex) & 1 for a 32-bit integer x: >> is the arithmetic shift
\* (floor division), & 1 the low bit
BitAt(x, bitIndex) == (x \div Pow2(bitIndex)) % 2

\* variant of rowsToGrid with column 0 on the least significant bit
rowsToGrid_LsbFirst(rows) ==
  [r \in 1..ROWS |->
     [c \in 1..COLS |->
        IF r \in DOMAIN rows THEN BitAt(rows[r], c - 1) = 1 ELSE FALSE]]

\* rows[r] of a missing element is undefined, and undefined >> k is 0
rowsToGrid(rows) ==
  [r \in 1..ROWS |->
     [c \in 1..COLS |->
        LET bitIndex == COLS - 1 - (c - 1)
        IN  IF r \in DOMAIN rows THEN BitAt(rows[r], bitIndex) = 1 ELSE FALSE]]

RECURSIVE RowValue(_, _, _)
\* the loop of gridToRows from column index c on, v the value so far
RowValue(row, c, v) ==
  IF c >= COLS THEN v
  ELSE LET bitIndex == COLS - 1 - c
           lit == (c + 1) \in DOMAIN row /\ row[c + 1]
           \* v |= 1 << bitIndex: the bit is not yet set in v
       IN  RowValue(row, c + 1, IF lit THEN v + Pow2(bitIndex) ELSE v)

\* variant of gridToRows whose loop stops one column early
gridToRows_DropLastColumn(grid) ==
  [r \in DOMAIN grid |->
     RowValue([c \in 1..(COLS - 1) |-> grid[r][c]], 0, 0)]

gridToRows(grid) == [r \in DOMAIN grid |-> RowValue(grid[r], 0, 0)]

\* ---------------------------------------------------------------------
\* Compact token
\* ---------------------------------------------------------------------
\* variant of encodeRowsBase32 that writes the rows last to first
encodeRowsBase32_Reversed(rows) ==
  [i \in DOMAIN rows |-> BASE32[clampRowValue(Num(rows[Len(rows) + 1 - i])) + 1]]

\* BASE32[k] ?? '0': k is always in 0..31 after the clamp
encodeRowsBase32(rows) ==
  [i \in DOMAIN rows |-> BASE32[clampRowValue(Num(rows[i])) + 1]]

\* String.prototype.toUpperCase follows the Unicode case mappings, which do
\* not depend on the locale or on the neighbouring characters.
\* SimpleUpper: the upper-case mapping of a code point that maps to one code
\* point (UnicodeData.txt, Unicode 17.0), one arm for each run of code points
\* that are moved by the same distance.
SimpleUpper(cp) ==
  CASE cp >= 97 /\ cp <= 122 -> cp - 32
    [] cp = 181 -> cp + 743
    [] cp >= 224 /\ cp <= 246 -> cp - 32
    [] cp >= 248 /\ cp <= 254 -> cp - 32
    [] cp = 255 -> cp + 121
    [] cp >= 257 /\ cp <= 303 /\ (cp - 257) % 2 = 0 -> cp - 1
    [] cp = 305 -> cp - 232
    [] cp >= 307 /\ cp <= 311 /\ (cp - 307) % 2 = 0 -> cp - 1
    [] cp >= 314 /\ cp <= 328 /\ (cp - 314) % 2 = 0 -> cp - 1
    [] cp >= 331 /\ cp <= 375 /\ (cp - 331) % 2 = 0 -> cp - 1
    [] cp >= 378 /\ cp <= 382 /\ (cp - 378) % 2 = 0 -> cp - 1
    [] cp = 383 -> cp - 300
    [] cp = 384 -> cp + 195
    [] cp >= 387 /\ cp <= 389 /\ (cp - 387) % 2 = 0 -> cp - 1
    [] cp = 392 -> cp - 1
    [] cp = 396 -> cp - 1
    [] cp = 402 -> cp - 1
    [] cp = 405 -> cp + 97
    [] cp = 409 -> cp - 1
    [] cp = 410 -> cp + 163
    [] cp = 411 -> cp + 42561
    [] cp = 414 -> cp + 130
    [] cp >= 417 /\ cp <= 421 /\ (cp - 417) % 2 = 0 -> cp - 1
    [] cp = 424 -> cp - 1
    [] cp = 429 -> cp - 1
    [] cp = 432 -> cp - 1
    [] cp >= 436 /\ cp <= 438 /\ (cp - 436) % 2 = 0 -> cp - 1
    [] cp = 441 -> cp - 1
    [] cp = 445 -> cp - 1
    [] cp = 447 -> cp + 56
    [] cp = 453 -> cp - 1
    [] cp = 454 -> cp - 2
    [] cp = 456 -> cp - 1
    [] cp = 457 -> cp - 2
    [] cp = 459 -> cp - 1
    [] cp = 460 -> cp - 2
    [] cp >= 462 /\ cp <= 476 /\ (cp - 462) % 2 = 0 -> cp - 1
    [] cp = 477 -> cp - 79
    [] cp >= 479 /\ cp <= 495 /\ (cp - 479) % 2 = 0 -> cp - 1
    [] cp = 498 -> cp - 1
    [] cp = 499 -> cp - 2
    [] cp = 501 -> cp - 1
    [] cp >= 505 /\ cp <= 543 /\ (cp - 505) % 2 = 0 -> cp - 1
    [] cp >= 547 /\ cp <= 563 /\ (cp - 547) % 2 = 0 -> cp - 1
    [] cp = 572 -> cp - 1
    [] cp >= 575 /\ cp <= 576 -> cp + 10815
    [] cp = 578 -> cp - 1
    [] cp >= 583 /\ cp <= 591 /\ (cp - 583) % 2 = 0 -> cp - 1
    [] cp = 592 -> cp + 10783
    [] cp = 593 -> cp + 10780
    [] cp = 594 -> cp + 10782
    [] cp = 595 -> cp - 210
    [] cp = 596 -> cp - 206
    [] cp >= 598 /\ cp <= 599 -> cp - 205
    [] cp = 601 -> cp - 202
    [] cp = 603 -> cp - 203
    [] cp = 604 -> cp + 42319
    [] cp = 608 -> cp - 205
    [] cp = 609 -> cp + 42315
    [] cp = 611 -> cp - 207
    [] cp = 612 -> cp + 42343
    [] cp = 613 -> cp + 42280
    [] cp = 614 -> cp + 42308
    [] cp = 616 -> cp - 209
    [] cp = 617 -> cp - 211
    [] cp = 618 -> cp + 42308
    [] cp = 619 -> cp + 10743
    [] cp = 620 -> cp + 42305
    [] cp = 623 -> cp - 211
    [] cp = 625 -> cp + 10749
    [] cp = 626 -> cp - 213
    [] cp = 629 -> cp - 214
    [] cp = 637 -> cp + 10727
    [] cp = 640 -> cp - 218
    [] cp = 642 -> cp + 42307
    [] cp = 643 -> cp - 218
    [] cp = 647 -> cp + 42282
    [] cp = 648 -> cp - 218
    [] cp = 649 -> cp - 69
    [] cp >= 650 /\ cp <= 651 -> cp - 217
    [] cp = 652 -> cp - 71
    [] cp = 658 -> cp - 219
    [] cp = 669 -> cp + 42261
    [] cp = 670 -> cp + 42258
    [] cp = 837 -> cp + 84
    [] cp >= 881 /\ cp <= 883 /\ (cp - 881) % 2 = 0 -> cp - 1
    [] cp = 887 -> cp - 1
    [] cp >= 891 /\ cp <= 893 -> cp + 130
    [] cp = 940 -> cp - 38
    [] cp >= 941 /\ cp <= 943 -> cp - 37
    [] cp >= 945 /\ cp <= 961 -> cp - 32
    [] cp = 962 -> cp - 31
    [] cp >= 963 /\ cp <= 971 -> cp - 32
    [] cp = 972 -> cp - 64
    [] cp >= 973 /\ cp <= 974 -> cp - 63
    [] cp = 976 -> cp - 62
    [] cp = 977 -> cp - 57
    [] cp = 981 -> cp - 47
    [] cp = 982 -> cp - 54
    [] cp = 983 -> cp - 8
    [] cp >= 985 /\ cp <= 1007 /\ (cp - 985) % 2 = 0 -> cp - 1
    [] cp = 1008 -> cp - 86
    [] cp = 1009 -> cp - 80
    [] cp = 1010 -> cp + 7
    [] cp = 1011 -> cp - 116
    [] cp = 1013 -> cp - 96
    [] cp = 1016 -> cp - 1
    [] cp = 1019 -> cp - 1
    [] cp >= 1072 /\ cp <= 1103 -> cp - 32
    [] cp >= 1104 /\ cp <= 1119 -> cp - 80
    [] cp >= 1121 /\ cp <= 1153 /\ (cp - 1121) % 2 = 0 -> cp - 1
    [] cp >= 1163 /\ cp <= 1215 /\ (cp - 1163) % 2 = 0 -> cp - 1
    [] cp >= 1218 /\ cp <= 1230 /\ (cp - 1218) % 2 = 0 -> cp - 1
    [] cp = 1231 -> cp - 15
    [] cp >= 1233 /\ cp <= 1327 /\ (cp - 1233) % 2 = 0 -> cp - 1
    [] cp >= 1377 /\ cp <= 1414 -> cp - 48
    [] cp >= 4304 /\ cp <= 4346 -> cp + 3008
    [] cp >= 4349 /\ cp <= 4351 -> cp + 3008
    [] cp >= 5112 /\ cp <= 5117 -> cp - 8
    [] cp = 7296 -> cp - 6254
    [] cp = 7297 -> cp - 6253
    [] cp = 7298 -> cp - 6244
    [] cp >= 7299 /\ cp <= 7300 -> cp - 6242
    [] cp = 7301 -> cp - 6243
    [] cp = 7302 -> cp - 6236
    [] cp = 7303 -> cp - 6181
    [] cp = 7304 -> cp + 35266
    [] cp = 7306 -> cp - 1
    [] cp = 7545 -> cp + 35332
    [] cp = 7549 -> cp + 3814
    [] cp = 7566 -> cp + 35384
    [] cp >= 7681 /\ cp <= 7829 /\ (cp - 7681) % 2 = 0 -> cp - 1
    [] cp = 7835 -> cp - 59
    [] cp >= 7841 /\ cp <= 7935 /\ (cp - 7841) % 2 = 0 -> cp - 1
    [] cp >= 7936 /\ cp <= 7943 -> cp + 8
    [] cp >= 7952 /\ cp <= 7957 -> cp + 8
    [] cp >= 7968 /\ cp <= 7975 -> cp + 8
    [] cp >= 7984 /\ cp <= 7991 -> cp + 8
    [] cp >= 8000 /\ cp <= 8005 -> cp + 8
    [] cp >= 8017 /\ cp <= 8023 /\ (cp - 8017) % 2 = 0 -> cp + 8
    [] cp >= 8032 /\ cp <= 8039 -> cp + 8
    [] cp >= 8048 /\ cp <= 8049 -> cp + 74
    [] cp >= 8050 /\ cp <= 8053 -> cp + 86
    [] cp >= 8054 /\ cp <= 8055 -> cp + 100
    [] cp >= 8056 /\ cp <= 8057 -> cp + 128
    [] cp >= 8058 /\ cp <= 8059 -> cp + 112
    [] cp >= 8060 /\ cp <= 8061 -> cp + 126
    [] cp >= 8112 /\ cp <= 8113 -> cp + 8
    [] cp = 8126 -> cp - 7205
    [] cp >= 8144 /\ cp <= 8145 -> cp + 8
    [] cp >= 8160 /\ cp <= 8161 -> cp + 8
    [] cp = 8165 -> cp + 7
    [] cp = 8526 -> cp - 28
    [] cp >= 8560 /\ cp <= 8575 -> cp - 16
    [] cp = 8580 -> cp - 1
    [] cp >= 9424 /\ cp <= 9449 -> cp - 26
    [] cp >= 11312 /\ cp <= 11359 -> cp - 48
    [] cp = 11361 -> cp - 1
    [] cp = 11365 -> cp - 10795
    [] cp = 11366 -> cp - 10792
    [] cp >= 11368 /\ cp <= 11372 /\ (cp - 11368) % 2 = 0 -> cp - 1
    [] cp = 11379 -> cp - 1
    [] cp = 11382 -> cp - 1
    [] cp >= 11393 /\ cp <= 11491 /\ (cp - 11393) % 2 = 0 -> cp - 1
    [] cp >= 11500 /\ cp <= 11502 /\ (cp - 11500) % 2 = 0 -> cp - 1
    [] cp = 11507 -> cp - 1
    [] cp >= 11520 /\ cp <= 11557 -> cp - 7264
    [] cp = 11559 -> cp - 7264
    [] cp = 11565 -> cp - 7264
    [] cp >= 42561 /\ cp <= 42605 /\ (cp - 42561) % 2 = 0 -> cp - 1
    [] cp >= 42625 /\ cp <= 42651 /\ (cp - 42625) % 2 = 0 -> cp - 1
    [] cp >= 42787 /\ cp <= 42799 /\ (cp - 42787) % 2 = 0 -> cp - 1
    [] cp >= 42803 /\ cp <= 42863 /\ (cp - 42803) % 2 = 0 -> cp - 1
    [] cp >= 42874 /\ cp <= 42876 /\ (cp - 42874) % 2 = 0 -> cp - 1
    [] cp >= 42879 /\ cp <= 42887 /\ (cp - 42879) % 2 = 0 -> cp - 1
    [] cp = 42892 -> cp - 1
    [] cp >= 42897 /\ cp <= 42899 /\ (cp - 42897) % 2 = 0 -> cp - 1
    [] cp = 42900 -> cp + 48
    [] cp >= 42903 /\ cp <= 42921 /\ (cp - 42903) % 2 = 0 -> cp - 1
    [] cp >= 42933 /\ cp <= 42947 /\ (cp - 42933) % 2 = 0 -> cp - 1
    [] cp >= 42952 /\ cp <= 42954 /\ (cp - 42952) % 2 = 0 -> cp - 1
    [] cp >= 42957 /\ cp <= 42971 /\ (cp - 42957) % 2 = 0 -> cp - 1
    [] cp = 42998 -> cp - 1
    [] cp = 43859 -> cp - 928
    [] cp >= 43888 /\ cp <= 43967 -> cp - 38864
    [] cp >= 65345 /\ cp <= 65370 -> cp - 32
    [] cp >= 66600 /\ cp <= 66639 -> cp - 40
    [] cp >= 66776 /\ cp <= 66811 -> cp - 40
    [] cp >= 66967 /\ cp <= 66977 -> cp - 39
    [] cp >= 66979 /\ cp <= 66993 -> cp - 39
    [] cp >= 66995 /\ cp <= 67001 -> cp - 39
    [] cp >= 67003 /\ cp <= 67004 -> cp - 39
    [] cp >= 68800 /\ cp <= 68850 -> cp - 64
    [] cp >= 68976 /\ cp <= 68997 -> cp - 32
    [] cp >= 71872 /\ cp <= 71903 -> cp - 32
    [] cp >= 93792 /\ cp <= 93823 -> cp - 32
    [] cp >= 93883 /\ cp <= 93907 -> cp - 27
    [] cp >= 125218 /\ cp <= 125251 -> cp - 34
    [] OTHER -> cp

\* s[i].toUpperCase(): the upper case of a one-unit string, as code units; the
\* arms are the code units that SpecialCasing.txt maps to several units (a
\* surrogate alone is left as it is)
toUpperCase(ch) ==
  CASE ch = 223 -> << 83, 83 >>
    [] ch = 329 -> << 700, 78 >>
    [] ch = 496 -> << 74, 780 >>
    [] ch = 912 -> << 921, 776, 769 >>
    [] ch = 944 -> << 933, 776, 769 >>
    [] ch = 1415 -> << 1333, 1362 >>
    [] ch = 7830 -> << 72, 817 >>
    [] ch = 7831 -> << 84, 776 >>
    [] ch = 7832 -> << 87, 778 >>
    [] ch = 7833 -> << 89, 778 >>
    [] ch = 7834 -> << 65, 702 >>
    [] ch = 8016 -> << 933, 787 >>
    [] ch = 8018 -> << 933, 787, 768 >>
    [] ch = 8020 -> << 933, 787, 769 >>
    [] ch = 8022 -> << 933, 787, 834 >>
    [] ch = 8064 -> << 7944, 921 >>
    [] ch = 8065 -> << 7945, 921 >>
    [] ch = 8066 -> << 7946, 921 >>
    [] ch = 8067 -> << 7947, 921 >>
    [] ch = 8068 -> << 7948, 921 >>
    [] ch = 8069 -> << 7949, 921 >>
    [] ch = 8070 -> << 7950, 921 >>
    [] ch = 8071 -> << 7951, 921 >>
    [] ch = 8072 -> << 7944, 921 >>
    [] ch = 8073 -> << 7945, 921 >>
    [] ch = 8074 -> << 7946, 921 >>
    [] ch = 8075 -> << 7947, 921 >>
    [] ch = 8076 -> << 7948, 921 >>
    [] ch = 8077 -> << 7949, 921 >>
    [] ch = 8078 -> << 7950, 921 >>
    [] ch = 8079 -> << 7951, 921 >>
    [] ch = 8080 -> << 7976, 921 >>
    [] ch = 8081 -> << 7977, 921 >>
    [] ch = 8082 -> << 7978, 921 >>
    [] ch = 8083 -> << 7979, 921 >>
    [] ch = 8084 -> << 7980, 921 >>
    [] ch = 8085 -> << 7981, 921 >>
    [] ch = 8086 -> << 7982, 921 >>
    [] ch = 8087 -> << 7983, 921 >>
    [] ch = 8088 -> << 7976, 921 >>
    [] ch = 8089 -> << 7977, 921 >>
    [] ch = 8090 -> << 7978, 921 >>
    [] ch = 8091 -> << 7979, 921 >>
    [] ch = 8092 -> << 7980, 921 >>
    [] ch = 8093 -> << 7981, 921 >>
    [] ch = 8094 -> << 7982, 921 >>
    [] ch = 8095 -> << 7983, 921 >>
    [] ch = 8096 -> << 8040, 921 >>
    [] ch = 8097 -> << 8041, 921 >>
    [] ch = 8098 -> << 8042, 921 >>
    [] ch = 8099 -> << 8043, 921 >>
    [] ch = 8100 -> << 8044, 921 >>
    [] ch = 8101 -> << 8045, 921 >>
    [] ch = 8102 -> << 8046, 921 >>
    [] ch = 8103 -> << 8047, 921 >>
    [] ch = 8104 -> << 8040, 921 >>
    [] ch = 8105 -> << 8041, 921 >>
    [] ch = 8106 -> << 8042, 921 >>
    [] ch = 8107 -> << 8043, 921 >>
    [] ch = 8108 -> << 8044, 921 >>
    [] ch = 8109 -> << 8045, 921 >>
    [] ch = 8110 -> << 8046, 921 >>
    [] ch = 8111 -> << 8047, 921 >>
    [] ch = 8114 -> << 8122, 921 >>
    [] ch = 8115 -> << 913, 921 >>
    [] ch = 8116 -> << 902, 921 >>
    [] ch = 8118 -> << 913, 834 >>
    [] ch = 8119 -> << 913, 834, 921 >>
    [] ch = 8124 -> << 913, 921 >>
    [] ch = 8130 -> << 8138, 921 >>
    [] ch = 8131 -> << 919, 921 >>
    [] ch = 8132 -> << 905, 921 >>
    [] ch = 8134 -> << 919, 834 >>
    [] ch = 8135 -> << 919, 834, 921 >>
    [] ch = 8140 -> << 919, 921 >>
    [] ch = 8146 -> << 921, 776, 768 >>
    [] ch = 8147 -> << 921, 776, 769 >>
    [] ch = 8150 -> << 921, 834 >>
    [] ch = 8151 -> << 921, 776, 834 >>
    [] ch = 8162 -> << 933, 776, 768 >>
    [] ch = 8163 -> << 933, 776, 769 >>
    [] ch = 8164 -> << 929, 787 >>
    [] ch = 8166 -> << 933, 834 >>
    [] ch = 8167 -> << 933, 776, 834 >>
    [] ch = 8178 -> << 8186, 921 >>
    [] ch = 8179 -> << 937, 921 >>
    [] ch = 8180 -> << 911, 921 >>
    [] ch = 8182 -> << 937, 834 >>
    [] ch = 8183 -> << 937, 834, 921 >>
    [] ch = 8188 -> << 937, 921 >>
    [] ch = 64256 -> << 70, 70 >>
    [] ch = 64257 -> << 70, 73 >>
    [] ch = 64258 -> << 70, 76 >>
    [] ch = 64259 -> << 70, 70, 73 >>
    [] ch = 64260 -> << 70, 70, 76 >>
    [] ch = 64261 -> << 83, 84 >>
    [] ch = 64262 -> << 83, 84 >>
    [] ch = 64275 -> << 1348, 1350 >>
    [] ch = 64276 -> << 1348, 1333 >>
    [] ch = 64277 -> << 1348, 1339 >>
    [] ch = 64278 -> << 1358, 1350 >>
    [] ch = 64279 -> << 1348, 1341 >>
    [] OTHER -> << SimpleUpper(ch) >>

\* String.prototype.indexOf(sub): first 0-based position of sub, or -1
indexOf(s, sub) ==
  LET hits == { i \in 1..(Len(s) - Len(sub) + 1) :
                  SubSeq(s, i, i + Len(sub) - 1) = sub }
  IN  IF hits = {} THEN -1 ELSE (CHOOSE i \in hits : \A j \in hits : i <= j) - 1

NoValue == << -1 >>

\* null is modelled as NoValue, which is no row vector (length 1, negative)
decodeRowsBase32(s) ==
  IF Len(s) # ROWS THEN NoValue
  ELSE LET idx == [i \in 1..ROWS |-> indexOf(BASE32, toUpperCase(s[i]))]
       IN  IF \E i \in 1..ROWS : idx[i] < 0 THEN NoValue ELSE idx

\* ---------------------------------------------------------------------
\* Edit history (the updaters passed to setHistory)
\* ---------------------------------------------------------------------
\* h.present.every((v, i) => v === nextRows[i])
SameRows(h, nextRows) ==
  \A i \in DOMAIN h.present : i \in DOMAIN nextRows /\ h.present[i] = nextRows[i]

\* variants of commitRows: future kept; no check for equal rows
commitRows_KeepFuture(h, nextRows) ==
  IF SameRows(h, nextRows) THEN h
  ELSE [past |-> Append(h.past, h.present), present |-> nextRows, future |-> h.future]

commitRows_AlwaysPush(h, nextRows) ==
  [past |-> Append(h.past, h.present), present |-> nextRows, future |-> << >>]

commitRows(h, nextRows) ==
  IF SameRows(h, nextRows) THEN h
  ELSE [past |-> Append(h.past, h.present), present |-> nextRows, future |-> << >>]

\* variant of undo without the early return: h.past[-1] is undefined
undo_NoGuard(h) ==
  IF Len(h.past) = 0
  THEN [past |-> << >>, present |-> << >>, future |-> << h.present >> \o h.future]
  ELSE [past |-> SubSeq(h.past, 1, Len(h.past) - 1),
        present |-> h.past[Len(h.past)],
        future |-> << h.present >> \o h.future]

\* variant of undo that does not put present on the future
undo_DropsPresent(h) ==
  IF Len(h.past) = 0 THEN h
  ELSE [past |-> SubSeq(h.past, 1, Len(h.past) - 1),
        present |-> h.past[Len(h.past)],
        future |-> h.future]

undo(h) ==
  IF Len(h.past) = 0 THEN h
  ELSE LET prev == h.past[Len(h.past)]
       IN  [past |-> SubSeq(h.past, 1, Len(h.past) - 1),
            present |-> prev,
            future |-> << h.present >> \o h.future]

\* variant of redo that does not put present back on past
redo_KeepsPast(h) ==
  IF Len(h.future) = 0 THEN h
  ELSE [past |-> h.past, present |-> h.future[1], future |-> Tail(h.future)]

redo(h) ==
  IF Len(h.future) = 0 THEN h
  ELSE LET next == h.future[1]
       IN  [past |-> Append(h.past, h.present),
            present |-> next,
            future |-> Tail(h.future)]

\* setHistory({ past: [], present: rows, future: [] })
resetHistory(rows) == [past |-> << >>, present |-> rows, future |-> << >>]

\* grid.map((row) => row.slice()); nextGrid[r][c] = v   (r, c 0-based)
withPixel(grid, r, c, v) ==
  [i \in DOMAIN grid |->
     IF i = r + 1 THEN [j \in DOMAIN grid[i] |-> IF j = c + 1 THEN v ELSE grid[i][j]]
     ELSE grid[i]]

\* history.present.map((v) => clampRowValue((~v) & 0b11111)):
\* ~v is -v - 1, and & 0b11111 keeps the low five bits
invertRows(rows) ==
  [i \in DOMAIN rows |-> clampRowValue(Num((-rows[i] - 1) % 32))]

\* ---------------------------------------------------------------------
\* JS coercions used by the record code
\* ---------------------------------------------------------------------
\* StrWhiteSpaceChar: tab, line feed, carriage return, form feed, space,
\* then U+000B, U+00A0, U+1680 and U+FEFF written as themselves.  The other
\* space separators (U+2000 to U+200A, U+202F, U+205F, U+3000) and the line
\* terminators U+2028 and U+2029 cannot be written in a string of this
\* notation, so no string of the model holds them.
WhiteSpaceChars == { " ", "\t", "\n", "\r", "\f", "", " ", " ", "﻿" }

\* str with its leading and trailing white space removed
RECURSIVE StrTrim(_)
StrTrim(str) ==
  IF Len(str) = 0 THEN str
  ELSE IF Head(str) \in WhiteSpaceChars THEN StrTrim(Tail(str))
  ELSE IF SubSeq(str, Len(str), Len(str)) \in WhiteSpaceChars
    THEN StrTrim(SubSeq(str, 1, Len(str) - 1))
  ELSE str

DigitChars == "0123456789abcdef"
DigitCharsUpper == "0123456789ABCDEF"

\* the value of the digit ch in the given radix, or -1
DigitValue(ch, radix) ==
  LET hit == { i \in 1..radix : SubSeq(DigitChars, i, i) = ch
                                  \/ SubSeq(DigitCharsUpper, i, i) = ch }
  IN  IF hit = {} THEN -1 ELSE (CHOOSE i \in hit : TRUE) - 1

\* the length of the longest prefix of str made of digits of the radix
RECURSIVE DigitSpan(_, _)
DigitSpan(str, radix) ==
  IF Len(str) = 0 \/ DigitValue(Head(str), radix) < 0 THEN 0
  ELSE 1 + DigitSpan(Tail(str), radix)

\* the integer written by the digits str, after acc
RECURSIVE DigitsValue(_, _, _)
DigitsValue(str, radix, acc) ==
  IF Len(str) = 0 THEN acc
  ELSE DigitsValue(Tail(str), radix, acc * radix + DigitValue(Head(str), radix))

\* str without its leading zeros
RECURSIVE StripZeros(_)
StripZeros(str) ==
  IF Len(str) > 0 /\ Head(str) = "0" THEN StripZeros(Tail(str)) ELSE str

\* NonDecimalIntegerLiteral: 0x, 0o or 0b and digits, unsigned; the radix, or 0
NonDecimalRadix(str) ==
  IF Len(str) < 3 \/ Head(str) # "0" THEN 0
  ELSE LET c == SubSeq(str, 2, 2)
           radix == IF c \in { "x", "X" } THEN 16
                    ELSE IF c \in { "o", "O" } THEN 8
                    ELSE IF c \in { "b", "B" } THEN 2 ELSE 0
       IN  IF radix # 0 /\ DigitSpan(SubSeq(str, 3, Len(str)), radix) = Len(str) - 2
           THEN radix ELSE 0

\* the first nine digits of the largest decimal that is still finite as a
\* double (what reaches 2^1024 - 2^970 = 1.797693134862315807...e308 is
\* Infinity), and of the largest that is still 0 (what is above
\* 2^-1075 = 2.470328229206232720...e-324 is the smallest double)
FiniteLeadLimit == 179769313
ZeroLeadLimit == 247032822

\* Long non-negative integers, for the doubles below 2^-1022 (which are the
\* multiples of 2^-1074): BigWidth groups of four decimal digits, the lowest
\* first.
BigBase == 10000
BigWidth == 62
\* the groups g[1], ..., g[BigWidth] as a sequence
BigSeq(g) == SubSeq(g, 1, BigWidth)
BigOf(m) ==
  BigSeq([i \in 1..BigWidth |-> IF i <= 3 THEN (m \div BigBase ^ (i - 1)) % BigBase ELSE 0])

\* groups of at most 2 * BigBase - 2 brought back to four digits each: a
\* group takes a carry of 1 when a group below has one to give and all
\* between are 9999
BigCarry(p) ==
  BigSeq([i \in 1..BigWidth |->
            LET taken == \E j \in 1..(i - 1) :
                           p[j] >= BigBase /\ \A m \in (j + 1)..(i - 1) : p[m] = BigBase - 1
            IN  (p[i] + (IF taken THEN 1 ELSE 0)) % BigBase])

BigAdd(a, b) == BigCarry([i \in 1..BigWidth |-> a[i] + b[i]])

\* a * k for k < BigBase: each group keeps the low four digits of its
\* product and takes the rest of the product below
BigTimesSmall(a, k) ==
  BigCarry([i \in 1..BigWidth |->
              ((a[i] * k) % BigBase) + (IF i = 1 THEN 0 ELSE (a[i - 1] * k) \div BigBase)])

\* a * BigBase^j
BigUp(a, j) == [i \in 1..BigWidth |-> IF i <= j THEN 0 ELSE a[i - j]]

\* a * 10^k
BigShift(a, k) == BigUp(BigTimesSmall(a, 10 ^ (k % 4)), k \div 4)

\* a * k for k below 2^31
BigTimes(a, k) ==
  BigAdd(BigAdd(BigUp(BigTimesSmall(a, k \div (BigBase * BigBase)), 2),
                BigUp(BigTimesSmall(a, (k \div BigBase) % BigBase), 1)),
         BigTimesSmall(a, k % BigBase))
BigLess(a, b) ==
  \E i \in 1..BigWidth : a[i] < b[i] /\ \A j \in (i + 1)..BigWidth : a[j] = b[j]

\* 2^743 and 5^332, in groups of four digits from the lowest.  In units of
\* 10^-332 the double n * 2^-1074 is 2n * 5^332 / 2^743, and what rounds to
\* it lies between (2n - 1) * 5^332 / 2^743 and (2n + 1) * 5^332 / 2^743.
\* A decimal of at most nine digits is never on such a limit.
TwoPow743 ==
  << 8208, 79, 5122, 4945, 122, 5777, 6040, 9822, 4545, 5720, 387, 4620,
     919, 5282, 1628, 2163, 776, 1250, 1770, 4580, 9134, 7285, 5155, 8505,
     2095, 3597, 9999, 3884, 2832, 1906, 371, 4827, 5858, 8321, 5783, 2224,
     7876, 1663, 3757, 5254, 5723, 4128, 6164, 7624, 4917, 8582, 1314, 6229,
     680, 9927, 141, 5470, 7543, 6994, 8644, 4626, 0, 0, 0, 0,
     0, 0 >>
FivePow332 ==
  << 625, 4414, 6877, 2873, 1897, 1305, 5305, 5827, 2768, 1656, 2026, 295,
     8397, 8455, 6100, 852, 7376, 1401, 9655, 1241, 1004, 2934, 6042, 5112,
     9187, 2283, 4136, 2205, 8232, 7402, 3533, 3054, 4918, 296, 172, 2186,
     4480, 5675, 3819, 9067, 2635, 2763, 8432, 5125, 6121, 7986, 4822, 999,
     4519, 959, 534, 5483, 5783, 8221, 2749, 1282, 8739, 1429, 1, 0,
     0, 0 >>

\* c * 10^s units rounds to the n-th multiple of 2^-1074
RoundsTo(c, s, n) ==
  LET scaled == BigShift(BigTimes(TwoPow743, c), s)
  IN  /\ BigLess(BigTimes(FivePow332, 2 * n - 1), scaled)
      /\ BigLess(scaled, BigTimes(FivePow332, 2 * n + 1))

\* the n from which scaled / 2^743 units rounds to n * 2^-1074: the largest
\* whose lower limit is below it, found digit by digit from 10^place down,
\* n being the digits found so far
RECURSIVE NearestMultiple(_, _, _)
NearestMultiple(scaled, n, place) ==
  LET digit == CHOOSE d \in 0..9 :
                 /\ d = 0 \/ BigLess(BigTimes(FivePow332, 2 * (n + d * 10 ^ place) - 1), scaled)
                 /\ d = 9 \/ ~BigLess(BigTimes(FivePow332, 2 * (n + (d + 1) * 10 ^ place) - 1),
                                       scaled)
  IN  IF place = 0 THEN n + digit
      ELSE IF digit = 0 THEN NearestMultiple(scaled, n, place - 1)
      ELSE NearestMultiple(scaled, n + digit * 10 ^ place, place - 1)

\* of two decimals c1 < c2 times 10^s units, c1 is the closer to n * 2^-1074
Closer(c1, c2, s, n) ==
  BigLess(BigTimes(FivePow332, 4 * n), BigShift(BigTimes(TwoPow743, c1 + c2), s))

\* the c for which c * 10^s units rounds to n * 2^-1074: they lie less than
\* 5 * 10^8 units from mant * 10^shift, which rounds to it too
Candidates(mant, shift, n, s) ==
  LET near == IF s - shift >= 10 THEN 0 ELSE mant \div 10 ^ (s - shift)
  IN  { c \in (near - 4)..(near + 5) : c >= 1 /\ RoundsTo(c, s, n) }

\* of the decimals found * 10^s units, the closest to n * 2^-1074
Closest(found, s, n) ==
  CHOOSE c \in found :
    \A d \in found \ { c } :
      IF d < c THEN ~Closer(d, c, s, n) ELSE Closer(c, d, s, n)

\* the highest of the powers of ten that have a decimal rounding to the double
Highest(levels) == CHOOSE s \in levels : \A t \in levels : t <= s

\* the decimal written for the double n * 2^-1074, in multiples of 10^s units
ShortestAt(sign, mant, shift, n, s) ==
  Decimal(sign * Closest(Candidates(mant, shift, n, s), s, n), s - 332)

\* Number::toString takes the decimal of the fewest digits that rounds to
\* the double, and of several the closest.  Those of the fewest digits are
\* the multiples of the highest power of ten that has one; 10^8 units
\* (10^-324) always has one, and the double is below 10^17 units.
ShortestDecimal(sign, mant, shift, n) ==
  ShortestAt(sign, mant, shift, n,
             Highest({ s \in 8..17 : Candidates(mant, shift, n, s) # { } }))

\* the double nearest to mant * 10^exp10 below 10^-315, for exp10 < -323: the
\* n-th multiple of 2^-1074, written as Number-to-string writes it
Subnormal(sign, mant, exp10) ==
  LET shift == exp10 + 332
      scaled == BigShift(BigTimes(TwoPow743, mant), shift)
      n == NearestMultiple(scaled, 0, 8)
  IN  IF n = 0 THEN Num(0) ELSE ShortestDecimal(sign, mant, shift, n)

\* the number sign * mant * 10^exp10 for mant >= 0 of at most nine digits,
\* which is 0.lead * 10^size.  With its last digit at 10^-323 or above it is
\* the shortest decimal of the double nearest to it, also below 2^-1022,
\* where the doubles are 4.94e-324 apart.
RECURSIVE ScaledNumber(_, _, _)
ScaledNumber(sign, mant, exp10) ==
  LET size == DigitCount(mant) + exp10
      lead == mant * 10 ^ (9 - DigitCount(mant))
      over == size >= 310 \/ (size = 309 /\ lead > FiniteLeadLimit)
      under == size <= -324 \/ (size = -323 /\ lead <= ZeroLeadLimit)
  IN  IF mant = 0 THEN Num(0)
      ELSE IF over THEN (IF sign < 0 THEN NegInfinity ELSE PosInfinity)
      ELSE IF under THEN Num(0)
      ELSE IF mant % 10 = 0 THEN ScaledNumber(sign, mant \div 10, exp10 + 1)
      ELSE IF exp10 >= -323 THEN Decimal(sign * mant, exp10)
      ELSE Subnormal(sign, mant, exp10)

\* ExponentPart after its e or E: an optional sign and digits to the end
ExponentPart(sign, mant, places, t) ==
  LET signed == Len(t) > 0 /\ Head(t) \in { "+", "-" }
      digits == IF signed THEN Tail(t) ELSE t
  IN  IF Len(digits) = 0 \/ DigitSpan(digits, 10) # Len(digits) THEN NaN
      ELSE IF signed /\ Head(t) = "-"
        THEN ScaledNumber(sign, mant, -DigitsValue(digits, 10, 0) - places)
        ELSE ScaledNumber(sign, mant, DigitsValue(digits, 10, 0) - places)

\* what follows the digits of mant / 10^places: nothing, or an ExponentPart
AfterDigits(sign, mant, places, rest) ==
  IF Len(rest) = 0 THEN ScaledNumber(sign, mant, -places)
  ELSE IF Head(rest) \in { "e", "E" } THEN ExponentPart(sign, mant, places, Tail(rest))
  ELSE NaN

\* the digits int, a point, and t, which begins with n2 digits
Fraction(sign, int, t, n2) ==
  IF Len(int) + n2 = 0 THEN NaN
  ELSE AfterDigits(sign, DigitsValue(StripZeros(int \o SubSeq(t, 1, n2)), 10, 0), n2,
                   SubSeq(t, n2 + 1, Len(t)))

\* the digits int and what follows them
AfterInteger(sign, int, rest) ==
  IF Len(rest) > 0 /\ Head(rest) = "."
    THEN Fraction(sign, int, Tail(rest), DigitSpan(Tail(rest), 10))
  ELSE IF Len(int) = 0 THEN NaN
  ELSE AfterDigits(sign, DigitsValue(StripZeros(int), 10, 0), 0, rest)

\* body, which begins with n1 digits
DecimalDigits(sign, body, n1) ==
  AfterInteger(sign, SubSeq(body, 1, n1), SubSeq(body, n1 + 1, Len(body)))

\* StrUnsignedDecimalLiteral: Infinity, or digits with an optional fraction
\* and an optional exponent part; anything else is NaN
UnsignedDecimal(sign, body) ==
  IF body = "Infinity" THEN (IF sign < 0 THEN NegInfinity ELSE PosInfinity)
  ELSE DecimalDigits(sign, body, DigitSpan(body, 10))

\* a trimmed, non-empty literal: non-decimal when radix is not 0
NumericLiteral(lit, radix) ==
  IF radix # 0 THEN Decimal(DigitsValue(SubSeq(lit, 3, Len(lit)), radix, 0), 0)
  ELSE IF Head(lit) \in { "+", "-" }
    THEN UnsignedDecimal(IF Head(lit) = "-" THEN -1 ELSE 1, Tail(lit))
  ELSE UnsignedDecimal(1, lit)

\* the value of a trimmed string
TrimmedToNumber(lit) ==
  IF Len(lit) = 0 THEN Num(0) ELSE NumericLiteral(lit, NonDecimalRadix(lit))

\* Number(string), the StringToNumber of ECMAScript: white space is trimmed,
\* the empty string is 0, what is no StringNumericLiteral is NaN
StringToNumber(str) == TrimmedToNumber(StrTrim(str))

\* Number(v)
ToNumber(v) ==
  CASE v.t = "number" -> v
    [] v.t = "undefined" -> NaN
    [] v.t = "null" -> Num(0)
    [] v.t = "boolean" -> Half(v.x2)
    [] OTHER -> StringToNumber(v.s)

\* n zeros
RECURSIVE Zeros(_)
Zeros(n) == IF n <= 0 THEN "" ELSE "0" \o Zeros(n - 1)

\* String(v) of a number (Number::toString), whose k digits have the point
\* after the n-th: zeros are added up to n <= 21, "0." and zeros come first
\* when -6 < n <= 0, and the exponent form is used otherwise
ExponentForm(digits, k, n) ==
  (IF k = 1 THEN digits ELSE SubSeq(digits, 1, 1) \o "." \o SubSeq(digits, 2, k))
    \o (IF n > 0 THEN "e+" \o ToString(n - 1) ELSE "e-" \o ToString(1 - n))

PositionalForm(digits, k, n) ==
  IF n > 21 \/ n <= -6 THEN ExponentForm(digits, k, n)
  ELSE IF n >= k THEN digits \o Zeros(n - k)
  ELSE IF n > 0 THEN SubSeq(digits, 1, n) \o "." \o SubSeq(digits, n + 1, k)
  ELSE "0." \o Zeros(-n) \o digits

MagnitudeToString(mag, e) ==
  IF e = 0 THEN ToString(mag \div 2) \o (IF mag % 2 = 1 THEN ".5" ELSE "")
  ELSE PositionalForm(ToString(mag \div 2), DigitCount(mag \div 2), DigitCount(mag \div 2) - e)

NumberToString(v) ==
  IF ~v.fin THEN (IF v.x2 = 0 THEN "NaN" ELSE IF v.x2 > 0 THEN "Infinity" ELSE "-Infinity")
  ELSE IF v.x2 < 0 THEN "-" \o MagnitudeToString(-v.x2, v.e)
  ELSE MagnitudeToString(v.x2, v.e)

\* String(v)
ToStringJs(v) ==
  CASE v.t = "string" -> v.s
    [] v.t = "undefined" -> "undefined"
    [] v.t = "null" -> "null"
    [] v.t = "boolean" -> (IF v.x2 = 0 THEN "false" ELSE "true")
    [] OTHER -> NumberToString(v)

\* a === 'literal'
IsStr(v, lit) == v.t = "string" /\ v.s = lit

\* x ?? d
Nullish(v) == v.t = "undefined" \/ v.t = "null"

\* JSON.stringify then JSON.parse of a scalar: NaN and the infinities are
\* written as null
JsonScalar(v) == IF v.t = "number" /\ ~v.fin THEN Null ELSE v

\* ---------------------------------------------------------------------
\* Saved records.  A SaveItem held by the program is
\*   [id, name, color, interfacing, datatype, createdAt, updatedAt : scalar,
\*    rows : sequence of integers]
\* and an element of a parsed JSON array (a raw item) is
\*   [obj : the element is an object, rowsIsArray, rows : sequence of scalars,
\*    id, name, color, interfacing, datatype, createdAt, updatedAt : scalar]
\* where a missing key reads as Undefined.
\* ---------------------------------------------------------------------
\* makeId(): the k-th identifier generated
makeId(k) == "gen" \o ToString(k)

\* what JSON.parse(JSON.stringify(item)) gives for a SaveItem
RawOfItem(item) ==
  [obj |-> TRUE, rowsIsArray |-> TRUE,
   rows |-> [i \in DOMAIN item.rows |-> Num(item.rows[i])],
   id |-> JsonScalar(item.id), name |-> JsonScalar(item.name),
   color |-> JsonScalar(item.color), interfacing |-> JsonScalar(item.interfacing),
   datatype |-> JsonScalar(item.datatype),
   createdAt |-> JsonScalar(item.createdAt), updatedAt |-> JsonScalar(item.updatedAt)]

\* the value a live SaveItem has when read as `any` (no JSON round trip)
AnyOfItem(item) ==
  [obj |-> TRUE, rowsIsArray |-> TRUE,
   rows |-> [i \in DOMAIN item.rows |-> Num(item.rows[i])],
   id |-> item.id, name |-> item.name,
   color |-> item.color, interfacing |-> item.interfacing,
   datatype |-> item.datatype,
   createdAt |-> item.createdAt, updatedAt |-> item.updatedAt]

\* x && Array.isArray(x.rows) && x.rows.length === ROWS
HasEightRows(x) == x.obj /\ x.rowsIsArray /\ Len(x.rows) = ROWS

\* persistSaves(items): localStorage.setItem('lcdcc:saves', JSON.stringify(items))
persistSaves(items) ==
  [kind |-> "array", items |-> [i \in DOMAIN items |-> RawOfItem(items[i])]]

\* loadSaves(): [] when the key is absent, unparsable or not an array;
\* otherwise the elements with an 8-element rows array, rows clamped
\* (clampRowValue(v), no Number(v)), every other field kept as it is
loadSaves(st) ==
  IF st.kind # "array" THEN << >>
  ELSE LET kept == SelectSeq(st.items, HasEightRows)
       IN  [k \in DOMAIN kept |->
              [id |-> kept[k].id, name |-> kept[k].name,
               rows |-> [i \in DOMAIN kept[k].rows |-> clampRowValue(kept[k].rows[i])],
               color |-> kept[k].color, interfacing |-> kept[k].interfacing,
               datatype |-> kept[k].datatype,
               createdAt |-> kept[k].createdAt, updatedAt |-> kept[k].updatedAt]]

\* ---------------------------------------------------------------------
\* importJsonFile.  A parsed document is
\*   [parses, savesIsArray, saves : sequence of raw items,
\*    characterRowsIsArray, character : [rows : sequence of scalars,
\*                                       color, interfacing, datatype : scalar]]
\* given as JSON.parse returns it; a file that JSON.parse rejects has
\* parses = FALSE and the message of the error thrown.
\* ---------------------------------------------------------------------
\* how many of the first n elements of xs have a nullish id
RECURSIVE NullishIdsBefore(_, _)
NullishIdsBefore(xs, n) ==
  IF n = 0 THEN 0
  ELSE NullishIdsBefore(xs, n - 1) + (IF Nullish(xs[n].id) THEN 1 ELSE 0)

\* how many times Date.now() is read for the first n elements of xs: once
\* for each createdAt and each updatedAt that is nullish
RECURSIVE ClockReadsBefore(_, _)
ClockReadsBefore(xs, n) ==
  IF n = 0 THEN 0
  ELSE ClockReadsBefore(xs, n - 1) + (IF Nullish(xs[n].createdAt) THEN 1 ELSE 0)
                                   + (IF Nullish(xs[n].updatedAt) THEN 1 ELSE 0)

\* Date.now(): the time counts from the first read of a run, which gives 1;
\* lastRead is the value of the last read, 0 before the first.  Every read
\* gives the value of the read before it or a later one, later by at most
\* ClockTicks milliseconds, whether the two reads are in one handler or in
\* two.  The j-th of the n reads of a handler gives lastRead + adv[j].
\* (The code stores and prints the times and does nothing else with them,
\* so a run with longer gaps is a run of these with its times spread out.)
ClockTicks == 4
RECURSIVE SumTo(_, _)
SumTo(steps, j) == IF j = 0 THEN 0 ELSE SumTo(steps, j - 1) + steps[j]

Advances(n, lastRead) ==
  { [j \in 1..n |-> SumTo(steps, j)] :
      steps \in { st \in [1..n -> 0..ClockTicks] :
                    lastRead = 0 /\ n > 0 => st[1] = 1 } }

\* the .map((x) => ({...})) of the saves branch for element k of xs;
\* firstId is the number of the next identifier makeId() generates, now the
\* value of the last read before and adv the advance of the clock at each read
coerceItem(xs, k, firstId, now, adv) ==
  LET x == xs[k]
      read == ClockReadsBefore(xs, k - 1)
      second == IF Nullish(x.createdAt) THEN read + 2 ELSE read + 1
  IN  [id |-> Str(IF Nullish(x.id) THEN makeId(firstId + NullishIdsBefore(xs, k - 1))
                  ELSE ToStringJs(x.id)),
       name |-> Str(IF Nullish(x.name) THEN "Imported" ELSE ToStringJs(x.name)),
       rows |-> [i \in DOMAIN x.rows |-> clampRowValue(ToNumber(x.rows[i]))],
       color |-> IF IsStr(x.color, "blue") THEN Str("blue") ELSE Str("green"),
       interfacing |-> IF IsStr(x.interfacing, "i2c") THEN Str("i2c") ELSE Str("parallel"),
       datatype |-> IF IsStr(x.datatype, "hex") THEN Str("hex") ELSE Str("bin"),
       createdAt |-> ToNumber(IF Nullish(x.createdAt) THEN Num(now + adv[read + 1])
                              ELSE x.createdAt),
       updatedAt |-> ToNumber(IF Nullish(x.updatedAt) THEN Num(now + adv[second])
                              ELSE x.updatedAt)]

\* merged = [...parsed.saves, ...saves].filter(...).map(...)
mergeSaves(docSaves, oldSaves, firstId, now, adv) ==
  LET all == docSaves \o [i \in DOMAIN oldSaves |-> AnyOfItem(oldSaves[i])]
      kept == SelectSeq(all, HasEightRows)
  IN  [k \in DOMAIN kept |-> coerceItem(kept, k, firstId, now, adv)]

\* rows of the single-character branch: slice(0, ROWS), clamp, pad with 0
characterRows(raw) ==
  [i \in 1..ROWS |-> IF i <= Len(raw) THEN clampRowValue(ToNumber(raw[i])) ELSE 0]

\* ---------------------------------------------------------------------
\* Code generation.  A literal is a sequence of UTF-16 code units.  The
\* generated text is a sequence of pieces
\*   [kind : "text" | "hole" | "literal", s : string, units : code units]
\* a template being cut at its placeholders and before its final line break.
\* ---------------------------------------------------------------------
\* the digit characters of Number.prototype.toString(radix): 0-9 then a-z
DigitUnit(d) == IF d < 10 THEN 48 + d ELSE 87 + d

RECURSIVE DigitsOf(_, _)
DigitsOf(n, radix) ==
  IF n < radix THEN << DigitUnit(n) >>
  ELSE DigitsOf(n \div radix, radix) \o << DigitUnit(n % radix) >>

\* v.toString(radix) of an integer v: a minus sign, then the digits
toStringRadix(v, radix) ==
  IF v < 0 THEN << 45 >> \o DigitsOf(-v, radix) ELSE DigitsOf(v, radix)

\* s.padStart(n, fill)
padStart(s, n, fill) ==
  IF Len(s) >= n THEN s ELSE [i \in 1..(n - Len(s)) |-> fill] \o s

\* a high surrogate followed by a low surrogate stands for one code point
IsPair(s) ==
  /\ Len(s) >= 2
  /\ s[1] >= 55296 /\ s[1] <= 56319
  /\ s[2] >= 56320 /\ s[2] <= 57343

PairToPoint(hi, lo) == 65536 + (hi - 55296) * 1024 + (lo - 56320)

PointToPair(cp) == << 55296 + ((cp - 65536) \div 1024), 56320 + ((cp - 65536) % 1024) >>

\* s.toUpperCase(): code point by code point
RECURSIVE toUpperCaseAll(_)
toUpperCaseAll(s) ==
  IF s = << >> THEN << >>
  ELSE IF IsPair(s)
    THEN PointToPair(SimpleUpper(PairToPoint(s[1], s[2]))) \o toUpperCaseAll(Tail(Tail(s)))
    ELSE toUpperCase(Head(s)) \o toUpperCaseAll(Tail(s))

\* variant of rowsToBinaryStrings without padStart
rowsToBinaryStrings_NoPad(rows) ==
  [i \in DOMAIN rows |-> << 66 >> \o toStringRadix(rows[i], 2)]

\* `B${v.toString(2).padStart(COLS, '0')}`
rowsToBinaryStrings(rows) ==
  [i \in DOMAIN rows |-> << 66 >> \o padStart(toStringRadix(rows[i], 2), COLS, 48)]

\* `0x${clampRowValue(v).toString(16).toUpperCase().padStart(2, '0')}`
rowsToHexStrings(rows) ==
  [i \in DOMAIN rows |->
     << 48, 120 >>
       \o padStart(toUpperCaseAll(toStringRadix(clampRowValue(Num(rows[i])), 16)), 2, 48)]

Text(str) == [kind |-> "text", s |-> str, units |-> << >>]
Hole(i) == [kind |-> "hole", s |-> "{DataX" \o ToString(i) \o "}", units |-> << >>]
Literal(units) == [kind |-> "literal", s |-> "", units |-> units]

templateParallel ==
  << Text("#include <LiquidCrystal.h>\n\nLiquidCrystal lcd(12, 11, 5, 4, 3, 2); // RS, E, D4, D5, D6, D7\n\nbyte customChar[] = {\n  "),
     Hole(0), Text(",\n  "),
     Hole(1), Text(",\n  "),
     Hole(2), Text(",\n  "),
     Hole(3), Text(",\n  "),
     Hole(4), Text(",\n  "),
     Hole(5), Text(",\n  "),
     Hole(6), Text(",\n  "),
     Hole(7), Text("\n};\n\nvoid setup() {\n  lcd.begin(16, 2);\n  lcd.createChar(0, customChar);\n  lcd.home();\n  lcd.write(0);\n}\n\nvoid loop() { }"),
     Text("\n") >>

templateI2c ==
  << Text("#include <Wire.h>\n#include <LiquidCrystal_I2C.h>\n\n// Set the LCD address to 0x27 in PCF8574 by NXP and Set to 0x3F in PCF8574A by Ti\nLiquidCrystal_I2C lcd(0x3F, 16, 2);\n\nbyte customChar[] = {\n  "),
     Hole(0), Text(",\n  "),
     Hole(1), Text(",\n  "),
     Hole(2), Text(",\n  "),
     Hole(3), Text(",\n  "),
     Hole(4), Text(",\n  "),
     Hole(5), Text(",\n  "),
     Hole(6), Text(",\n  "),
     Hole(7), Text("\n};\n\nvoid setup() {\n  lcd.begin();\n  lcd.createChar(0, customChar);\n  lcd.home();\n  lcd.write(0);\n}\n\nvoid loop() { }"),
     Text("\n") >>

\* code.replace(`{DataX${i}}`, line): the first occurrence is replaced
replaceFirst(code, i, line) ==
  LET hits == { k \in DOMAIN code : code[k] = Hole(i) }
  IN  IF hits = {} THEN code
      ELSE [code EXCEPT ![CHOOSE k \in hits : \A j \in hits : k <= j] = Literal(line)]

\* for (let i = 0; i < ROWS; i++) code = code.replace(...)
RECURSIVE substitute(_, _, _)
substitute(code, i, lines) ==
  IF i = ROWS THEN code
  ELSE substitute(replaceFirst(code, i, lines[i + 1]), i + 1, lines)

\* code.trimEnd(): the pieces of white space at the end are dropped
RECURSIVE trimEnd(_)
trimEnd(code) ==
  IF code # << >> /\ code[Len(code)].kind = "text" /\ code[Len(code)].s \in {"", "\n"}
  THEN trimEnd(SubSeq(code, 1, Len(code) - 1))
  ELSE code

\* variant of buildArduinoCode that trims the text of the bin style only
buildArduinoCode_TrimsBinOnly(rows, wiring, style) ==
  LET lines == IF IsStr(style, "hex") THEN rowsToHexStrings(rows)
               ELSE rowsToBinaryStrings(rows)
      template == IF IsStr(wiring, "parallel") THEN templateParallel ELSE templateI2c
      code == substitute(template, 0, lines)
  IN  IF IsStr(style, "hex") THEN code ELSE trimEnd(code)

buildArduinoCode(rows, wiring, style) ==
  LET lines == IF IsStr(style, "hex") THEN rowsToHexStrings(rows)
               ELSE rowsToBinaryStrings(rows)
      template == IF IsStr(wiring, "parallel") THEN templateParallel ELSE templateI2c
  IN  trimEnd(substitute(template, 0, lines))

\* ---------------------------------------------------------------------
\* Bounds and inputs
\* ---------------------------------------------------------------------
MaxEvents == 4      \* events handled in a run: clicks, pointer events, file
                    \* choices and completed file reads

\* cells the pointer touches (0-based row, column)
PaintRows == {0, ROWS - 1}
PaintCols == {COLS - 1}
PaintCells == (PaintRows \X PaintCols) \cup { << 0, 0 >> }

\* the segmented buttons clicked in a run
ColorClicks == {"blue"}
InterfacingClicks == {"i2c"}
DatatypeClicks == {"hex"}

\* "v100000h", "W0000000", "V1", and U+0131 followed by "0000000"
TokenLower == << 118, 49, 48, 48, 48, 48, 48, 104 >>
TokenBadChar == << 87, 48, 48, 48, 48, 48, 48, 48 >>
TokenShort == << 86, 49 >>
TokenDotless == << 305, 48, 48, 48, 48, 48, 48, 48 >>

Field(tok) == [has |-> TRUE, s |-> tok]
NoField == [has |-> FALSE, s |-> << >>]

UrlNone == [r |-> NoField, c |-> Null, i |-> Null, t |-> Null]
UrlValid ==
  [r |-> Field(TokenLower), c |-> Str("blue"), i |-> Str("i2c"), t |-> Str("hex")]
UrlBadChar ==
  [r |-> Field(TokenBadChar), c |-> Str("blue"), i |-> Str("spi"), t |-> Null]
UrlShort ==
  [r |-> Field(TokenShort), c |-> Str("purple"), i |-> Null, t |-> Str("hex")]

RawItem(id, name, rows, col) ==
  [obj |-> TRUE, rowsIsArray |-> TRUE, rows |-> rows,
   id |-> id, name |-> name, color |-> col,
   interfacing |-> Str("i2c"), datatype |-> Undefined,
   createdAt |-> Num(1), updatedAt |-> Undefined]

NotAnObject ==
  [obj |-> FALSE, rowsIsArray |-> FALSE, rows |-> << >>,
   id |-> Undefined, name |-> Undefined, color |-> Undefined,
   interfacing |-> Undefined, datatype |-> Undefined,
   createdAt |-> Undefined, updatedAt |-> Undefined]

\* rows as they may stand in a file: out of range, fractional, non-numeric,
\* and 1e999, which JSON.parse reads as Infinity
WildRows == << Num(40), Num(-5), Half(7), Str("7"), Null, PosInfinity, Num(31), Num(4) >>
SevenRows == << Num(1), Num(2), Num(3), Num(4), Num(5), Num(6), Num(7) >>

ZeroRows == [i \in 1..ROWS |-> Num(0)]

StoreAbsent == [kind |-> "absent", items |-> << >>]
StoreArray ==
  [kind |-> "array",
   items |-> << RawItem(Str("a"), Str("A"), WildRows, Str("purple")),
                NotAnObject,
                RawItem(Str("b"), Str("B"), SevenRows, Str("blue")) >>]

\* the pages the program is opened on: search fields and persisted list
InitialPages ==
  { [url |-> UrlNone, store |-> StoreArray],
    [url |-> UrlValid, store |-> StoreAbsent],
    [url |-> UrlBadChar, store |-> StoreAbsent],
    [url |-> UrlShort, store |-> StoreAbsent] }

NoCharacter == [rows |-> << >>, color |-> Undefined, interfacing |-> Undefined,
                datatype |-> Undefined]
DocUnrecognized ==
  [parses |-> TRUE, savesIsArray |-> FALSE, saves |-> << >>,
   characterRowsIsArray |-> FALSE, character |-> NoCharacter]
\* a file that JSON.parse rejects: message is the message of the SyntaxError
\* it throws for the file's text
NotJson(message) ==
  [parses |-> FALSE, savesIsArray |-> FALSE, saves |-> << >>,
   characterRowsIsArray |-> FALSE, character |-> NoCharacter, message |-> message]
\* the file "not json", read by V8 (Node, Chromium)
DocNotJson == NotJson("Unexpected token 'o', \"not json\" is not valid JSON")
DocSingle ==
  [parses |-> TRUE, savesIsArray |-> FALSE, saves |-> << >>,
   characterRowsIsArray |-> TRUE,
   character |-> [rows |-> << Num(40), Half(-3), Str("7") >>, color |-> Str("blue"),
                  interfacing |-> Str("spi"), datatype |-> Undefined]]
DocList ==
  [parses |-> TRUE, savesIsArray |-> TRUE,
   saves |-> << [RawItem(Undefined, Undefined, WildRows, Str("blue"))
                   EXCEPT !.createdAt = Undefined],
                RawItem(Str("a7"), Str("A7"), SevenRows, Str("blue")),
                [RawItem(Str("a"), Str("A2"), ZeroRows, Str("green"))
                   EXCEPT !.updatedAt = Num(1)] >>,
   characterRowsIsArray |-> FALSE, character |-> NoCharacter]
ImportDocs == { DocUnrecognized, DocNotJson, DocSingle, DocList }

\* ---------------------------------------------------------------------
\* The App component
\* ---------------------------------------------------------------------
vars == << phase, color, interfacing, datatype, history, saves, selectedSaveId,
           store, url, view, dragging, paintValue, nextId, clock, pending,
           imports, alerts, events, last, probe >>

settingVars == << color, interfacing, datatype >>
savesVars == << saves, selectedSaveId, store, nextId, clock >>
dragVars == << dragging, paintValue >>
importVars == << pending, imports, alerts >>

\* what a render captures for the handlers it creates
CurrentView ==
  [history |-> history, color |-> color, interfacing |-> interfacing,
   datatype |-> datatype, saves |-> saves, selectedSaveId |-> selectedSaveId]

\* the four fields syncUrlFromState writes for the rendered state
ShareFields(v) ==
  [r |-> Field(encodeRowsBase32(v.history.present)),
   c |-> Str(ToStringJs(v.color)),
   i |-> Str(ToStringJs(v.interfacing)),
   t |-> Str(ToStringJs(v.datatype))]

\* const grid = useMemo(() => rowsToGrid(history.present), [history.present])
grid == rowsToGrid(view.history.present)

NoProbe == [kind |-> "none", in |-> << >>, done |-> FALSE, out |-> << >>]

AppInit ==
  /\ phase = "mount"
  /\ color = Str("green")
  /\ interfacing = Str("parallel")
  /\ datatype = Str("bin")
  /\ history = resetHistory(emptyRows)
  /\ saves = << >>
  /\ selectedSaveId = ""
  /\ \E page \in InitialPages : url = page.url /\ store = page.store
  /\ view = [history |-> resetHistory(emptyRows), color |-> Str("green"),
             interfacing |-> Str("parallel"), datatype |-> Str("bin"),
             saves |-> << >>, selectedSaveId |-> ""]
  /\ dragging = FALSE
  /\ paintValue = TRUE
  /\ nextId = 1
  /\ clock = 0
  /\ pending = {}
  /\ imports = 0
  /\ alerts = << >>
  /\ events = 0
  /\ last = [op |-> "init", x |-> << >>, p0 |-> emptyRows, n0 |-> 0, f0 |-> 0]

Init == AppInit /\ probe = NoProbe

\* one more event, within the bound of the run
UserEvent == phase = "ready" /\ events < MaxEvents /\ events' = events + 1

\* op: the operation; x: the rows it committed or loaded (<< >> if none);
\* p0, n0, f0: present, length of past and length of future before it
Did(op, x) ==
  last' = [op |-> op, x |-> x, p0 |-> history.present,
           n0 |-> Len(history.past), f0 |-> Len(history.future)]

\* A discrete event (click, pointerdown, change) that updated state is
\* rendered before the next event is handled; the render's effect then
\* rewrites the share fields.
Flush ==
  /\ view' = CurrentView'
  /\ url' = ShareFields(view')

\* A render of updates made outside a discrete event (pointerenter, the
\* mount effect, FileReader.onload) happens at some later point.
Render ==
  /\ phase = "ready"
  /\ view # CurrentView
  /\ view' = CurrentView
  /\ url' = ShareFields(CurrentView)
  /\ UNCHANGED << phase, settingVars, history, savesVars, dragVars, importVars,
                  events, last, probe >>

\* the two effects of the first render: "Load from URL + saved list once",
\* then "Keep URL shareable" with the values of that first render
\* variant of the load effect that applies the settings only together with
\* a decoded token
LoadEffect_AllOrNothing ==
  /\ phase = "mount"
  /\ phase' = "ready"
  /\ saves' = loadSaves(store)
  /\ LET decoded == IF url.r.has /\ Len(url.r.s) > 0 THEN decodeRowsBase32(url.r.s)
                    ELSE NoValue
     IN  IF decoded # NoValue
         THEN /\ history' = resetHistory(decoded) /\ Did("urlLoad", decoded)
              /\ color' = IF IsStr(url.c, "green") \/ IsStr(url.c, "blue") THEN url.c
                          ELSE color
              /\ interfacing' = IF IsStr(url.i, "parallel") \/ IsStr(url.i, "i2c")
                                THEN url.i ELSE interfacing
              /\ datatype' = IF IsStr(url.t, "bin") \/ IsStr(url.t, "hex") THEN url.t
                             ELSE datatype
         ELSE /\ history' = history /\ Did("urlNoLoad", << >>)
              /\ UNCHANGED settingVars
  /\ url' = ShareFields(view)
  /\ UNCHANGED << selectedSaveId, store, nextId, clock, view, dragVars, importVars,
                  events, probe >>

LoadEffect ==
  /\ phase = "mount"
  /\ phase' = "ready"
  /\ saves' = loadSaves(store)
  /\ color' = IF IsStr(url.c, "green") \/ IsStr(url.c, "blue") THEN url.c ELSE color
  /\ interfacing' = IF IsStr(url.i, "parallel") \/ IsStr(url.i, "i2c") THEN url.i
                    ELSE interfacing
  /\ datatype' = IF IsStr(url.t, "bin") \/ IsStr(url.t, "hex") THEN url.t ELSE datatype
  /\ LET decoded == IF url.r.has /\ Len(url.r.s) > 0 THEN decodeRowsBase32(url.r.s)
                    ELSE NoValue
     IN  IF decoded # NoValue
         THEN history' = resetHistory(decoded) /\ Did("urlLoad", decoded)
         ELSE history' = history /\ Did("urlNoLoad", << >>)
  /\ url' = ShareFields(view)
  /\ UNCHANGED << selectedSaveId, store, nextId, clock, view, dragVars, importVars,
                  events, probe >>

\* setPixel(r, c, v): reads the rendered grid, commits on the current history
setPixel(r, c, v) ==
  LET x == gridToRows(withPixel(grid, r, c, v))
  IN  history' = commitRows(history, x) /\ Did("setPixel", x)

handlePointerDown(r, c) ==
  /\ UserEvent
  /\ dragging' = TRUE
  /\ paintValue' = ~grid[r + 1][c + 1]
  /\ setPixel(r, c, ~grid[r + 1][c + 1])
  /\ UNCHANGED << phase, settingVars, savesVars, importVars, probe >>
  /\ Flush

handlePointerEnter(r, c) ==
  /\ UserEvent
  /\ dragging
  /\ grid[r + 1][c + 1] # paintValue
  /\ setPixel(r, c, paintValue)
  /\ UNCHANGED << phase, settingVars, savesVars, importVars, dragVars, view, url,
                  probe >>

stopDrag ==
  /\ UserEvent
  /\ dragging
  /\ dragging' = FALSE
  /\ UNCHANGED << phase, settingVars, history, savesVars, importVars, paintValue,
                  view, url, last, probe >>

clear ==
  /\ UserEvent
  /\ history' = commitRows(history, emptyRows)
  /\ Did("clear", emptyRows)
  /\ UNCHANGED << phase, settingVars, savesVars, importVars, dragVars, probe >>
  /\ Flush

invert ==
  /\ UserEvent
  /\ LET next == invertRows(view.history.present)
     IN  history' = commitRows(history, next) /\ Did("invert", next)
  /\ UNCHANGED << phase, settingVars, savesVars, importVars, dragVars, probe >>
  /\ Flush

\* the Undo button is disabled while the rendered past is empty
UndoClick ==
  /\ UserEvent
  /\ Len(view.history.past) # 0
  /\ history' = undo(history)
  /\ Did("undo", << >>)
  /\ UNCHANGED << phase, settingVars, savesVars, importVars, dragVars, probe >>
  /\ Flush

\* the Redo button is disabled while the rendered future is empty
RedoClick ==
  /\ UserEvent
  /\ Len(view.history.future) # 0
  /\ history' = redo(history)
  /\ Did("redo", << >>)
  /\ UNCHANGED << phase, settingVars, savesVars, importVars, dragVars, probe >>
  /\ Flush

\* the segmented buttons: onClick={() => setColor('green')} ...
setColor(c) ==
  /\ UserEvent
  /\ color' = Str(c)
  /\ UNCHANGED last
  /\ UNCHANGED << phase, interfacing, datatype, history, savesVars, importVars,
                  dragVars, probe >>
  /\ Flush

setInterfacing(i) ==
  /\ UserEvent
  /\ interfacing' = Str(i)
  /\ UNCHANGED last
  /\ UNCHANGED << phase, color, datatype, history, savesVars, importVars,
                  dragVars, probe >>
  /\ Flush

setDatatype(t) ==
  /\ UserEvent
  /\ datatype' = Str(t)
  /\ UNCHANGED last
  /\ UNCHANGED << phase, color, interfacing, history, savesVars, importVars,
                  dragVars, probe >>
  /\ Flush

\* <select value={selectedSaveId} onChange=...>: "" or the id of a rendered save
selectSave(k) ==
  /\ UserEvent
  /\ k \in 0..Len(view.saves)
  /\ selectedSaveId' = IF k = 0 THEN "" ELSE ToStringJs(view.saves[k].id)
  /\ selectedSaveId' # selectedSaveId
  /\ UNCHANGED last
  /\ UNCHANGED << phase, settingVars, history, saves, store, nextId, clock,
                  importVars, dragVars, probe >>
  /\ Flush

saveNew ==
  /\ UserEvent
  /\ \E adv \in Advances(1, clock) :
     LET now == clock + adv[1]
         item == [id |-> Str(makeId(nextId)),
                  name |-> Str("Character " \o ToString(now)),
                  rows |-> view.history.present,
                  color |-> view.color,
                  interfacing |-> view.interfacing,
                  datatype |-> view.datatype,
                  createdAt |-> Num(now),
                  updatedAt |-> Num(now)]
         next == << item >> \o view.saves
     IN  /\ saves' = next
         /\ selectedSaveId' = item.id.s
         /\ store' = persistSaves(next)
         /\ clock' = now
  /\ nextId' = nextId + 1
  /\ UNCHANGED last
  /\ UNCHANGED << phase, settingVars, history, importVars, dragVars, probe >>
  /\ Flush

overwriteSelected ==
  /\ UserEvent
  /\ view.selectedSaveId # ""
  /\ \E adv \in Advances(1, clock) :
     LET now == clock + adv[1]
         next == [k \in DOMAIN view.saves |->
                    IF IsStr(view.saves[k].id, view.selectedSaveId)
                    THEN [view.saves[k] EXCEPT
                            !.rows = view.history.present,
                            !.color = view.color,
                            !.interfacing = view.interfacing,
                            !.datatype = view.datatype,
                            !.updatedAt = Num(now)]
                    ELSE view.saves[k]]
     IN  /\ saves' = next
         /\ store' = persistSaves(next)
         /\ clock' = now
  /\ UNCHANGED last
  /\ UNCHANGED << phase, settingVars, history, selectedSaveId, nextId, importVars,
                  dragVars, probe >>
  /\ Flush

\* saves.find((s) => s.id === selectedSaveId)
FoundSave ==
  LET hits == { k \in DOMAIN view.saves : IsStr(view.saves[k].id, view.selectedSaveId) }
  IN  IF hits = {} THEN 0 ELSE CHOOSE k \in hits : \A j \in hits : k <= j

\* variant of loadSelected that commits the record's rows
loadSelected_Commits ==
  /\ UserEvent
  /\ view.selectedSaveId # ""
  /\ FoundSave # 0
  /\ LET item == view.saves[FoundSave]
         rows == [i \in DOMAIN item.rows |-> clampRowValue(Num(item.rows[i]))]
     IN  /\ color' = item.color
         /\ interfacing' = item.interfacing
         /\ datatype' = item.datatype
         /\ history' = commitRows(history, rows)
         /\ Did("loadSelected", rows)
  /\ UNCHANGED << phase, savesVars, importVars, dragVars, probe >>
  /\ Flush

loadSelected ==
  /\ UserEvent
  /\ view.selectedSaveId # ""
  /\ FoundSave # 0
  /\ LET item == view.saves[FoundSave]
         rows == [i \in DOMAIN item.rows |-> clampRowValue(Num(item.rows[i]))]
     IN  /\ color' = item.color
         /\ interfacing' = item.interfacing
         /\ datatype' = item.datatype
         /\ history' = resetHistory(rows)
         /\ Did("loadSelected", rows)
  /\ UNCHANGED << phase, savesVars, importVars, dragVars, probe >>
  /\ Flush

renameSelected(name) ==
  /\ UserEvent
  /\ view.selectedSaveId # ""
  /\ LET next == [k \in DOMAIN view.saves |->
                    IF IsStr(view.saves[k].id, view.selectedSaveId)
                    THEN [view.saves[k] EXCEPT !.name = Str(name)]
                    ELSE view.saves[k]]
     IN  /\ saves' = next
         /\ store' = persistSaves(next)
  /\ UNCHANGED last
  /\ UNCHANGED << phase, settingVars, history, selectedSaveId, nextId, clock,
                  importVars, dragVars, probe >>
  /\ Flush

NotSelected(s) == ~IsStr(s.id, view.selectedSaveId)

deleteSelected ==
  /\ UserEvent
  /\ view.selectedSaveId # ""
  /\ LET next == SelectSeq(view.saves, NotSelected)
     IN  /\ saves' = next
         /\ store' = persistSaves(next)
  /\ selectedSaveId' = ""
  /\ UNCHANGED last
  /\ UNCHANGED << phase, settingVars, history, nextId, clock, importVars,
                  dragVars, probe >>
  /\ Flush

\* importJsonFile(file): reader.onload is created by the current render and
\* closes over its `saves`; reader.readAsText(file) completes later.
\* (current records whether that list was the saved list when the file was
\* chosen; no handler reads it.)
importJsonFile(doc) ==
  /\ UserEvent
  /\ imports' = imports + 1
  /\ pending' = pending \cup { [doc |-> doc, saves |-> view.saves, n |-> imports,
                                 current |-> (view.saves = saves)] }
  /\ UNCHANGED << phase, settingVars, history, savesVars, dragVars, alerts,
                  view, url, last, probe >>

\* variant of reader.onload that clears the editor before it looks at the
\* shape of the document
readerOnload_ClearsFirst(p) ==
  /\ p \in pending
  /\ events < MaxEvents
  /\ events' = events + 1
  /\ pending' = pending \ {p}
  /\ IF ~p.doc.parses
     THEN \* JSON.parse throws: alert
          /\ alerts' = Append(alerts, "Import failed: " \o p.doc.message)
          /\ UNCHANGED << settingVars, history, savesVars, last >>
     ELSE IF p.doc.savesIsArray
     THEN LET kept == SelectSeq(p.doc.saves \o [i \in DOMAIN p.saves |-> AnyOfItem(p.saves[i])],
                                HasEightRows)
              reads == ClockReadsBefore(kept, Len(kept))
          IN  /\ \E adv \in Advances(reads, clock) :
                   LET merged == mergeSaves(p.doc.saves, p.saves, nextId, clock, adv)
                   IN  /\ saves' = merged
                       /\ store' = persistSaves(merged)
                       /\ clock' = IF reads = 0 THEN clock ELSE clock + adv[reads]
              /\ nextId' = nextId + NullishIdsBefore(kept, Len(kept))
              /\ UNCHANGED last
              /\ UNCHANGED << settingVars, history, selectedSaveId, alerts >>
     ELSE IF p.doc.characterRowsIsArray
     THEN LET rows == characterRows(p.doc.character.rows)
              c == p.doc.character.color
              i == p.doc.character.interfacing
              t == p.doc.character.datatype
          IN  /\ color' = IF IsStr(c, "green") \/ IsStr(c, "blue") THEN c ELSE color
              /\ interfacing' = IF IsStr(i, "parallel") \/ IsStr(i, "i2c") THEN i
                                ELSE interfacing
              /\ datatype' = IF IsStr(t, "bin") \/ IsStr(t, "hex") THEN t ELSE datatype
              /\ history' = resetHistory(rows)
              /\ Did("importSingle", rows)
              /\ UNCHANGED << savesVars, alerts >>
     ELSE \* throw new Error('Unrecognized JSON shape'): alert
          /\ alerts' = Append(alerts, "Import failed: Unrecognized JSON shape")
          /\ history' = resetHistory(emptyRows)
          /\ Did("importSingle", emptyRows)
          /\ UNCHANGED << settingVars, savesVars >>
  /\ UNCHANGED << phase, imports, dragVars, view, url, probe >>

\* reader.onload
readerOnload(p) ==
  /\ p \in pending
  /\ events < MaxEvents
  /\ events' = events + 1
  /\ pending' = pending \ {p}
  /\ IF ~p.doc.parses
     THEN \* JSON.parse throws: alert
          /\ alerts' = Append(alerts, "Import failed: " \o p.doc.message)
          /\ UNCHANGED << settingVars, history, savesVars, last >>
     ELSE IF p.doc.savesIsArray
     THEN LET kept == SelectSeq(p.doc.saves \o [i \in DOMAIN p.saves |-> AnyOfItem(p.saves[i])],
                                HasEightRows)
              reads == ClockReadsBefore(kept, Len(kept))
          IN  /\ \E adv \in Advances(reads, clock) :
                   LET merged == mergeSaves(p.doc.saves, p.saves, nextId, clock, adv)
                   IN  /\ saves' = merged
                       /\ store' = persistSaves(merged)
                       /\ clock' = IF reads = 0 THEN clock ELSE clock + adv[reads]
              /\ nextId' = nextId + NullishIdsBefore(kept, Len(kept))
              /\ UNCHANGED last
              /\ UNCHANGED << settingVars, history, selectedSaveId, alerts >>
     ELSE IF p.doc.characterRowsIsArray
     THEN LET rows == characterRows(p.doc.character.rows)
              c == p.doc.character.color
              i == p.doc.character.interfacing
              t == p.doc.character.datatype
          IN  /\ color' = IF IsStr(c, "green") \/ IsStr(c, "blue") THEN c ELSE color
              /\ interfacing' = IF IsStr(i, "parallel") \/ IsStr(i, "i2c") THEN i
                                ELSE interfacing
              /\ datatype' = IF IsStr(t, "bin") \/ IsStr(t, "hex") THEN t ELSE datatype
              /\ history' = resetHistory(rows)
              /\ Did("importSingle", rows)
              /\ UNCHANGED << savesVars, alerts >>
     ELSE \* throw new Error('Unrecognized JSON shape'): alert
          /\ alerts' = Append(alerts, "Import failed: Unrecognized JSON shape")
          /\ UNCHANGED << settingVars, history, savesVars, last >>
  /\ UNCHANGED << phase, imports, dragVars, view, url, probe >>

Next ==
  \/ LoadEffect
  \/ Render
  \/ \E cell \in PaintCells : handlePointerDown(cell[1], cell[2])
  \/ \E cell \in PaintCells : handlePointerEnter(cell[1], cell[2])
  \/ stopDrag
  \/ clear
  \/ invert
  \/ UndoClick
  \/ RedoClick
  \/ \E c \in ColorClicks : setColor(c)
  \/ \E i \in InterfacingClicks : setInterfacing(i)
  \/ \E t \in DatatypeClicks : setDatatype(t)
  \/ \E k \in 0..Len(view.saves) : selectSave(k)
  \/ saveNew
  \/ overwriteSelected
  \/ loadSelected
  \/ \E name \in {"Renamed"} : renameSelected(name)
  \/ deleteSelected
  \/ \E doc \in ImportDocs : importJsonFile(doc)
  \/ \E p \in pending : readerOnload(p)

Spec == Init /\ [][Next]_vars

\* ---------------------------------------------------------------------
\* The codec functions on their own: an input is drawn, then the function
\* is applied to it.
\* ---------------------------------------------------------------------
MaxStride == 2      \* row vectors a, a+b, a+2b, ... (mod 32) for b up to this
MaxTokenLen == 9    \* tokens of length 0 up to this
MaxNumber == 40     \* numbers from -MaxNumber to MaxNumber, in steps of 0.5

\* [0x1F, 0x11, 0x11, 0x1F, 0x01, 0x01, 0x1F, 0x00]
ExampleRows == << 31, 17, 17, 31, 1, 1, 31, 0 >>

ProbeRowVectors ==
  { [i \in 1..ROWS |-> (a + b * (i - 1)) % 32] : a \in 0..31, b \in 0..MaxStride }
    \cup { ExampleRows }

\* every pattern of one row, placed at each row of an all-off or all-on grid
ProbeGrids ==
  { [r \in 1..ROWS |-> IF r = k THEN p ELSE [c \in 1..COLS |-> q]] :
      k \in 1..ROWS, p \in [1..COLS -> BOOLEAN], q \in BOOLEAN }

\* 0 9 A V a v, then W w - / : @ [ space, U+00DF, U+00E9, U+0131, U+017F,
\* U+FB00, U+FB05, U+FB06, U+FF41 and a high surrogate
ProbeChars == { 48, 57, 65, 86, 97, 118, 87, 119, 45, 47, 58, 64, 91, 32,
                223, 233, 305, 383, 64256, 64261, 64262, 65345, 55297 }
\* "V1a7v0Gh09AB" cut to every length, and "v100000h" with one unit replaced
LongToken == << 86, 49, 97, 55, 118, 48, 71, 104, 48, 57, 65, 66 >>
ProbeTokens ==
  { SubSeq(LongToken, 1, n) : n \in 0..MaxTokenLen }
    \cup { [TokenLower EXCEPT ![k] = ch] : k \in 1..ROWS, ch \in ProbeChars }
    \cup { TokenShort, TokenBadChar, TokenDotless }

\* numbers given to clampRowValue: integers, halves, NaN and the infinities
ProbeNumbers ==
  { Half(n2) : n2 \in (-2 * MaxNumber)..(2 * MaxNumber) }
    \cup { NaN, PosInfinity, NegInfinity }

ProbeInputs ==
  { [kind |-> "rows", in |-> r, done |-> FALSE, out |-> << >>] : r \in ProbeRowVectors }
    \cup { [kind |-> "grid", in |-> m, done |-> FALSE, out |-> << >>] : m \in ProbeGrids }
    \cup { [kind |-> "token", in |-> tok, done |-> FALSE, out |-> << >>] : tok \in ProbeTokens }
    \cup { [kind |-> "number", in |-> v, done |-> FALSE, out |-> << >>] : v \in ProbeNumbers }
    \cup { [kind |-> "code", in |-> [rows |-> r, interfacing |-> w],
            done |-> FALSE, out |-> << >>] : r \in ProbeRowVectors, w \in Interfacings }

CodecInit ==
  /\ AppInit
  /\ url = UrlNone
  /\ probe \in ProbeInputs

appVars == << phase, color, interfacing, datatype, history, saves, selectedSaveId,
              store, url, view, dragging, paintValue, nextId, clock, pending,
              imports, alerts, events, last >>

ApplyToRows ==
  /\ probe.kind = "rows" /\ ~probe.done
  /\ probe' = [probe EXCEPT
                 !.done = TRUE,
                 !.out = [grid |-> rowsToGrid(probe.in),
                          back |-> gridToRows(rowsToGrid(probe.in)),
                          token |-> encodeRowsBase32(probe.in),
                          decoded |-> decodeRowsBase32(encodeRowsBase32(probe.in))]]
  /\ UNCHANGED appVars

ApplyToGrid ==
  /\ probe.kind = "grid" /\ ~probe.done
  /\ probe' = [probe EXCEPT
                 !.done = TRUE,
                 !.out = [rows |-> gridToRows(probe.in),
                          back |-> rowsToGrid(gridToRows(probe.in))]]
  /\ UNCHANGED appVars

ApplyToToken ==
  /\ probe.kind = "token" /\ ~probe.done
  /\ probe' = [probe EXCEPT
                 !.done = TRUE,
                 !.out = [decoded |-> decodeRowsBase32(probe.in)]]
  /\ UNCHANGED appVars

ApplyToNumber ==
  /\ probe.kind = "number" /\ ~probe.done
  /\ probe' = [probe EXCEPT
                 !.done = TRUE,
                 !.out = [clamped |-> clampRowValue(probe.in)]]
  /\ UNCHANGED appVars

ApplyToCode ==
  /\ probe.kind = "code" /\ ~probe.done
  /\ probe' = [probe EXCEPT
                 !.done = TRUE,
                 !.out = [hex |-> buildArduinoCode(probe.in.rows, probe.in.interfacing,
                                                   Str("hex")),
                          bin |-> buildArduinoCode(probe.in.rows, probe.in.interfacing,
                                                   Str("bin")),
                          grid |-> rowsToGrid(probe.in.rows)]]
  /\ UNCHANGED appVars

CodecNext ==
  ApplyToRows \/ ApplyToGrid \/ ApplyToToken \/ ApplyToNumber \/ ApplyToCode

SpecCodec == CodecInit /\ [][CodecNext]_vars

\* ---------------------------------------------------------------------
\* Properties
\* ---------------------------------------------------------------------
ValidRows(x) == DOMAIN x = 1..ROWS /\ \A i \in 1..ROWS : x[i] \in 0..31

CommitOps == {"setPixel", "clear", "invert"}
LoadOps == {"urlLoad", "loadSelected", "importSingle"}

\* C1: a commit of rows x that differ from present appends the old present
\* to past, makes x the present and empties future, so that a redo right
\* after it changes nothing.
C1_CommitAppends ==
  [][ (last' # last /\ last'.op \in CommitOps /\ last'.x # history.present)
        => /\ history' = [past |-> Append(history.past, history.present),
                          present |-> last'.x,
                          future |-> << >>]
           /\ redo(history') = history' ]_vars

\* C1 witness: an effective commit was made while future was not empty.
C1_Witness ==
  /\ last.op \in CommitOps
  /\ last.x # last.p0
  /\ last.f0 > 0
  /\ history.future = << >>
  /\ Len(history.past) = last.n0 + 1

\* C2: a commit of rows equal to present leaves past, present and future
\* as they are.
C2_SameCommitUnchanged ==
  [][ (last'.op \in CommitOps /\ last'.x = history.present
         /\ last'.p0 = history.present
         /\ last'.n0 = Len(history.past) /\ last'.f0 = Len(history.future))
        => history' = history ]_vars

\* C2 witness: a commit of the present rows was made while both past or
\* future held snapshots, and future is still there.
C2_Witness ==
  /\ last.op \in CommitOps
  /\ last.x = last.p0
  /\ last.f0 > 0
  /\ Len(history.future) = last.f0
  /\ history.present = last.x

\* C3: undo with an empty past, and redo with an empty future, leave the
\* history as it is.
C3_UndoRedoAtBounds ==
  [][ (\/ last'.op = "undo" /\ last'.n0 = 0 /\ Len(history.past) = 0
       \/ last'.op = "redo" /\ last'.f0 = 0 /\ Len(history.future) = 0)
        => history' = history ]_vars

\* C3 witness: redo ran on a history whose future was empty (the button was
\* still enabled by the last render).
C3_Witness ==
  /\ last.op = "redo"
  /\ last.f0 = 0
  /\ last.n0 > 0

\* the rows a handler can commit in the current state, and the example
CommitCandidates ==
  { emptyRows, invertRows(history.present), << 1, 0, 0, 0, 0, 0, 0, 0 >> }
    \cup { gridToRows(withPixel(rowsToGrid(history.present), r, c, v)) :
             r \in PaintRows, c \in PaintCols, v \in BOOLEAN }

\* C4: from any history with present p, committing rows x other than p and
\* then undoing gives present p; a redo then gives present x and the very
\* history the commit produced.  From the initial history, committing
\* [1,0,0,0,0,0,0,0], undo gives all zeros and redo gives [1,0,0,0,0,0,0,0].
C4_CommitUndoRedo ==
  /\ \A x \in CommitCandidates :
       x # history.present =>
         LET h1 == commitRows(history, x)
             h2 == undo(h1)
             h3 == redo(h2)
         IN  /\ h2.present = history.present
             /\ h3.present = x
             /\ h3 = h1
  /\ LET one == << 1, 0, 0, 0, 0, 0, 0, 0 >>
         h1 == commitRows(resetHistory(emptyRows), one)
     IN  /\ undo(h1).present = emptyRows
         /\ redo(undo(h1)).present = one

\* C4 witness: the example was run by the handlers: commit of
\* [1,0,0,0,0,0,0,0] on the initial history, undo, redo.
C4_Witness ==
  /\ last.op = "redo"
  /\ last.p0 = emptyRows
  /\ last.f0 = 1
  /\ history = [past |-> << emptyRows >>,
                present |-> << 1, 0, 0, 0, 0, 0, 0, 0 >>,
                future |-> << >>]

\* C5: the history starts as (no past, all-zero present, no future), and
\* after a load from the share link, a saved record or a single-character
\* file it is (no past, the loaded rows, no future), so that undo and redo
\* change nothing.
C5_LoadResets ==
  /\ phase = "mount" => history = [past |-> << >>, present |-> emptyRows, future |-> << >>]
  /\ last.op \in LoadOps =>
       /\ history = [past |-> << >>, present |-> last.x, future |-> << >>]
       /\ undo(history) = history
       /\ redo(history) = history

\* C5 witness: a saved record was loaded over a history that had a past.
C5_Witness ==
  /\ last.op = "loadSelected"
  /\ last.n0 > 0
  /\ last.x # last.p0

\* C6: present and every snapshot of past and future is a sequence of
\* exactly 8 integers in 0..31.
C6_RowsValid ==
  /\ ValidRows(history.present)
  /\ \A k \in DOMAIN history.past : ValidRows(history.past[k])
  /\ \A k \in DOMAIN history.future : ValidRows(history.future[k])

\* C6 witness: the rows [40, -1.5, "7"] of a single-character file are in
\* the past, clamped and padded, under a snapshot made by an edit.
C6_Witness ==
  /\ Len(history.past) > 0
  /\ history.past[1] = << 31, 0, 7, 0, 0, 0, 0, 0 >>
  /\ last.op \in CommitOps
  /\ history.present # history.past[1]

\* the 32 symbols of the alphabet, letters in either case
AlphabetUnits == (48..57) \cup (65..86) \cup (97..118)

\* C7: for rows r of 8 values in 0..31, gridToRows(rowsToGrid(r)) = r.
C7_RowsRoundTrip ==
  (probe.kind = "rows" /\ probe.done) => probe.out.back = probe.in

\* C7 witness: the round trip was run on rows with different values.
C7_Witness ==
  /\ probe.kind = "rows" /\ probe.done
  /\ probe.in = ExampleRows
  /\ probe.out.grid[2] = << TRUE, FALSE, FALSE, FALSE, TRUE >>

\* C8: for an 8 by 5 boolean matrix m, rowsToGrid(gridToRows(m)) = m and
\* every value of gridToRows(m) is in 0..31.
C8_GridRoundTrip ==
  (probe.kind = "grid" /\ probe.done) =>
     /\ probe.out.back = probe.in
     /\ \A r \in DOMAIN probe.out.rows : probe.out.rows[r] \in 0..31

\* C8 witness: the round trip was run on a matrix with a row lit in its
\* last column only, the other rows all lit.
C8_Witness ==
  /\ probe.kind = "grid" /\ probe.done
  /\ probe.in[3] = << FALSE, FALSE, FALSE, FALSE, TRUE >>
  /\ probe.in[1] = << TRUE, TRUE, TRUE, TRUE, TRUE >>
  /\ probe.out.rows[3] = 1
  /\ probe.out.rows[1] = 31

\* C9: for rows r of 8 values in 0..31, encodeRowsBase32(r) has 8
\* characters, the i-th being the alphabet symbol of row i, and
\* decodeRowsBase32 of it is r.
C9_TokenRoundTrip ==
  (probe.kind = "rows" /\ probe.done) =>
     /\ Len(probe.out.token) = ROWS
     /\ \A i \in 1..ROWS :
          /\ probe.out.token[i] = BASE32[probe.in[i] + 1]
          /\ probe.out.token[i] \in (48..57) \cup (65..86)
     /\ probe.out.decoded = probe.in

\* C9 witness: the example rows were encoded, to "VHHV11V0", and decoded.
C9_Witness ==
  /\ probe.kind = "rows" /\ probe.done
  /\ probe.in = ExampleRows
  /\ probe.out.token = << 86, 72, 72, 86, 49, 49, 86, 48 >>
  /\ probe.out.decoded = ExampleRows

\* C10: decodeRowsBase32 gives no value for every input whose length is not
\* 8 and for every input with a character outside the 32 alphabet symbols
\* (digits, letters A-V in either case).
C10_DecodeRejects ==
  (/\ probe.kind = "token" /\ probe.done
   /\ \/ Len(probe.in) # ROWS
      \/ \E i \in DOMAIN probe.in : probe.in[i] \notin AlphabetUnits)
    => probe.out.decoded = NoValue

\* C11: for every number v (integers below 0, within 0..31 and above 31,
\* NaN and the infinities), clampRowValue(v) is an integer in 0..31: 0 for
\* a non-finite v, 0 below 0, 31 above 31, v itself for an integer v in
\* 0..31; clampRowValue(-5) = 0, clampRowValue(40) = 31, clampRowValue(NaN) = 0.
C11_ClampTotal ==
  /\ (probe.kind = "number" /\ probe.done) =>
       /\ probe.out.clamped \in 0..31
       /\ ~probe.in.fin => probe.out.clamped = 0
       /\ (probe.in.fin /\ probe.in.x2 < 0) => probe.out.clamped = 0
       /\ (probe.in.fin /\ probe.in.x2 > 2 * 31) => probe.out.clamped = 31
       /\ (probe.in.fin /\ probe.in.x2 % 2 = 0 /\ probe.in.x2 \div 2 \in 0..31)
            => probe.out.clamped = probe.in.x2 \div 2
  /\ clampRowValue(Num(-5)) = 0
  /\ clampRowValue(Num(40)) = 31
  /\ clampRowValue(NaN) = 0

\* C11 witness: clampRowValue was applied to positive infinity and gave 0.
C11_Witness ==
  /\ probe.kind = "number" /\ probe.done
  /\ probe.in = PosInfinity
  /\ probe.out.clamped = 0

\* C12: when the r field of the share link does not decode, the load effect
\* leaves the history as it was (no past, all-zero present, no future) and
\* still applies the c, i and t fields that hold a known value; a field that
\* is missing or holds an unknown value leaves its setting as it was.
C12_BadTokenIgnored ==
  [][ (/\ phase = "mount" /\ phase' = "ready"
       /\ url.r.has
       /\ decodeRowsBase32(url.r.s) = NoValue)
        => /\ history' = history
           /\ history' = [past |-> << >>, present |-> emptyRows, future |-> << >>]
           /\ color' = (IF url.c \in {Str("green"), Str("blue")} THEN url.c ELSE color)
           /\ interfacing' = (IF url.i \in {Str("parallel"), Str("i2c")} THEN url.i
                              ELSE interfacing)
           /\ datatype' = (IF url.t \in {Str("bin"), Str("hex")} THEN url.t
                           ELSE datatype) ]_vars

\* C12 witness: the page was opened on r=W0000000, c=blue, i=spi and no t:
\* the load is over, nothing was decoded, color is blue, interfacing and
\* datatype are the initial ones.
C12_Witness ==
  /\ phase = "ready"
  /\ events = 0
  /\ last.op = "urlNoLoad"
  /\ color = Str("blue")
  /\ interfacing = Str("parallel")
  /\ datatype = Str("bin")
  /\ history = [past |-> << >>, present |-> emptyRows, future |-> << >>]

\* a step that runs reader.onload for the pending read p
OnloadStep(p) == p \in pending /\ pending' = pending \ {p}

\* C13: after a list-shaped file is imported, every record of the file that
\* is an object with a rows array, of whatever length, is in the saved list
\* with exactly 8 rows: its values clamped into 0..31, cut after the 8th and
\* padded with 0 (a 7-element rows array gives 8 rows, the last one 0).
C13_ShortRowsRepaired ==
  [][ \A p \in pending :
        (OnloadStep(p) /\ p.doc.parses /\ p.doc.savesIsArray) =>
          \A k \in DOMAIN p.doc.saves :
            (p.doc.saves[k].obj /\ p.doc.saves[k].rowsIsArray) =>
              \E j \in DOMAIN saves' :
                saves'[j].rows = [i \in 1..ROWS |->
                                   IF i <= Len(p.doc.saves[k].rows)
                                   THEN clampRowValue(ToNumber(p.doc.saves[k].rows[i]))
                                   ELSE 0] ]_vars

\* C14: when a list-shaped file is processed while the saved list is L, the
\* new saved list is the accepted records of the file, in file order,
\* followed by every record of L in its order (same identifier, name and
\* rows), and the persisted store holds that same list.
C14_ImportKeepsList ==
  [][ \A p \in pending :
        (OnloadStep(p) /\ p.doc.parses /\ p.doc.savesIsArray) =>
          LET accepted == SelectSeq(p.doc.saves, HasEightRows)
              n == Len(accepted)
          IN  /\ Len(saves') = n + Len(saves)
              /\ \A k \in 1..n :
                   k \in DOMAIN saves' =>
                     saves'[k].rows = [i \in 1..ROWS |->
                                        clampRowValue(ToNumber(accepted[k].rows[i]))]
              /\ \A k \in DOMAIN saves :
                   (n + k) \in DOMAIN saves' =>
                     /\ saves'[n + k].id = saves[k].id
                     /\ saves'[n + k].name = saves[k].name
                     /\ saves'[n + k].rows = saves[k].rows
              /\ store' = persistSaves(saves') ]_vars

\* C15: when the imported document parses but has neither a saves array nor
\* a character with a rows array, the import reports exactly one error and
\* changes nothing: history, color, interfacing, datatype, the saved list,
\* the selected record and the persisted store are as before.
C15_UnrecognizedNoChange ==
  [][ \A p \in pending :
        (/\ OnloadStep(p)
         /\ p.doc.parses
         /\ ~p.doc.savesIsArray
         /\ ~p.doc.characterRowsIsArray)
          => /\ Len(alerts') = Len(alerts) + 1
             /\ history' = history
             /\ color' = color
             /\ interfacing' = interfacing
             /\ datatype' = datatype
             /\ saves' = saves
             /\ selectedSaveId' = selectedSaveId
             /\ store' = store ]_vars

\* C15 witness: an unrecognized document was imported over an edited
\* history and a non-empty saved list; one error was reported.
C15_Witness ==
  /\ alerts = << "Import failed: Unrecognized JSON shape" >>
  /\ pending = {}
  /\ Len(history.past) > 0
  /\ Len(saves) > 0

\* C16: in every state color, interfacing and datatype are inside their
\* value sets, and so are the three settings of every record of the saved
\* list.
C16_SettingsClosed ==
  /\ color \in Colors
  /\ interfacing \in Interfacings
  /\ datatype \in DataTypes
  /\ \A k \in DOMAIN saves :
       /\ saves[k].color \in Colors
       /\ saves[k].interfacing \in Interfacings
       /\ saves[k].datatype \in DataTypes

\* C17: an imported record takes each setting from the file when the file
\* holds a value of the set, and the default otherwise (color green,
\* interfacing parallel, datatype bin), whatever the current settings are:
\* for every accepted record of a list-shaped file, and for the character
\* of a single-character file.
C17_ImportDefaults ==
  [][ \A p \in pending :
        (OnloadStep(p) /\ p.doc.parses) =>
          IF p.doc.savesIsArray
          THEN LET accepted == SelectSeq(p.doc.saves, HasEightRows)
               IN  \A k \in DOMAIN accepted :
                     /\ k \in DOMAIN saves'
                     /\ saves'[k].color =
                          (IF accepted[k].color \in Colors THEN accepted[k].color
                           ELSE Str("green"))
                     /\ saves'[k].interfacing =
                          (IF accepted[k].interfacing \in Interfacings
                           THEN accepted[k].interfacing ELSE Str("parallel"))
                     /\ saves'[k].datatype =
                          (IF accepted[k].datatype \in DataTypes THEN accepted[k].datatype
                           ELSE Str("bin"))
          ELSE p.doc.characterRowsIsArray =>
                 /\ color' = (IF p.doc.character.color \in Colors
                              THEN p.doc.character.color ELSE Str("green"))
                 /\ interfacing' = (IF p.doc.character.interfacing \in Interfacings
                                    THEN p.doc.character.interfacing ELSE Str("parallel"))
                 /\ datatype' = (IF p.doc.character.datatype \in DataTypes
                                 THEN p.doc.character.datatype ELSE Str("bin")) ]_vars

\* C18: invert replaces every value v of the rows of present by 31 - v,
\* putting the old present at the end of past and emptying future, and a
\* second invert makes present equal to the old present again, with past
\* two snapshots longer and future empty.  (An invert clicked before the
\* rows of a load are rendered is not looked at.)
C18_InvertSelfInverse ==
  [][ (last' # last /\ last'.op = "invert" /\ last.op \notin LoadOps) =>
        LET r == history.present
            h1 == history'
            h2 == commitRows(h1, invertRows(h1.present))
        IN  /\ h1.present = [i \in 1..ROWS |-> 31 - r[i]]
            /\ h1.past = Append(history.past, r)
            /\ h1.future = << >>
            /\ h2.present = r
            /\ h2.past = history.past \o << r, h1.present >>
            /\ h2.future = << >> ]_vars

\* the literals of a generated text, in order, and the text around them
IsLiteral(piece) == piece.kind = "literal"
LiteralsOf(code) == SelectSeq(code, IsLiteral)
SkeletonOf(code) ==
  [k \in DOMAIN code |-> IF code[k].kind \in {"literal", "hole"} THEN Literal(<< >>)
                         ELSE code[k]]

\* C19: for given rows and wiring mode, the text generated in hex style and
\* the text generated in bin style each hold 8 literals in place of the 8
\* placeholders, and are the same text before, between and after them:
\* the template of the wiring mode without its final line break, whatever
\* the rows.
C19_SameSkeleton ==
  (probe.kind = "code" /\ probe.done) =>
     LET template == IF probe.in.interfacing = Str("parallel") THEN templateParallel
                     ELSE templateI2c
     IN  /\ Len(LiteralsOf(probe.out.hex)) = ROWS
         /\ Len(LiteralsOf(probe.out.bin)) = ROWS
         /\ \A k \in DOMAIN probe.out.hex : probe.out.hex[k].kind # "hole"
         /\ \A k \in DOMAIN probe.out.bin : probe.out.bin[k].kind # "hole"
         /\ SkeletonOf(probe.out.hex) = SkeletonOf(probe.out.bin)
         /\ SkeletonOf(probe.out.hex)
              = SkeletonOf(SubSeq(template, 1, Len(template) - 1))

\* C19 witness: both texts were generated for the example rows in the I2C
\* wiring; they differ, and end with the loop function.
C19_Witness ==
  /\ probe.kind = "code" /\ probe.done
  /\ probe.in.rows = ExampleRows
  /\ probe.in.interfacing = Str("i2c")
  /\ probe.out.hex # probe.out.bin
  /\ probe.out.hex[2] = Literal(<< 48, 120, 49, 70 >>)
  /\ probe.out.bin[2] = Literal(<< 66, 49, 49, 49, 49, 49 >>)
  /\ probe.out.hex[Len(probe.out.hex)] = probe.out.bin[Len(probe.out.bin)]

\* the character of a hexadecimal digit, in upper case
HexUnit(d) == IF d < 10 THEN 48 + d ELSE 55 + d

\* C20: for rows of 8 values in 0..31, the i-th literal of the generated
\* text renders row i: in bin style it is B followed by exactly 5 binary
\* digits, the c-th from the left being 1 exactly when pixel (i, c) of the
\* matrix view is lit; in hex style it is 0x followed by exactly 2
\* upper-case hexadecimal digits whose value is the row value.
C20_LiteralsRenderRows ==
  (probe.kind = "code" /\ probe.done) =>
     \A i \in 1..ROWS :
       /\ LiteralsOf(probe.out.bin)[i].units
            = << 66 >> \o [c \in 1..COLS |-> IF probe.out.grid[i][c] THEN 49 ELSE 48]
       /\ LiteralsOf(probe.out.hex)[i].units
            = << 48, 120, HexUnit(probe.in.rows[i] \div 16),
                 HexUnit(probe.in.rows[i] % 16) >>

\* C20 witness: rows 10, 12, 14, ... were rendered: row 0 is B01010 and
\* 0x0A, row 3 is B10000 and 0x10.
C20_Witness ==
  /\ probe.kind = "code" /\ probe.done
  /\ probe.in.rows = << 10, 12, 14, 16, 18, 20, 22, 24 >>
  /\ LiteralsOf(probe.out.bin)[1].units = << 66, 48, 49, 48, 49, 48 >>
  /\ LiteralsOf(probe.out.hex)[1].units = << 48, 120, 48, 65 >>
  /\ LiteralsOf(probe.out.bin)[4].units = << 66, 49, 48, 48, 48, 48 >>
  /\ LiteralsOf(probe.out.hex)[4].units = << 48, 120, 49, 48 >>

\* C21: every record of the saved list has an identifier that no other
\* record of the list has.
C21_UniqueIds ==
  \A j, k \in DOMAIN saves : j # k => saves[j].id # saves[k].id

\* the cells in which two row vectors differ
CellsChanged(a, b) ==
  { << r, c >> \in (1..ROWS) \X (1..COLS) : rowsToGrid(a)[r][c] # rowsToGrid(b)[r][c] }

\* C22: the snapshot a setPixel commits equals the present of the history
\* at the moment of the commit in every cell except at most one, the cell it
\* sets, whatever was done since the matrix view was last computed.
C22_SetPixelKeepsOthers ==
  [][ (last' # last /\ last'.op = "setPixel") =>
        /\ Cardinality(CellsChanged(last'.x, history.present)) <= 1
        /\ history'.present = last'.x ]_vars

\* a step in which the pointer enters a cell: an event that is neither a
\* click or pointer-down (those are rendered at once), nor the end of the
\* gesture, nor a file choice or the end of a file read
EnterStep ==
  /\ events' = events + 1
  /\ view' = view
  /\ dragging' = dragging
  /\ pending' = pending

\* C23: during a gesture the paint value stays the one chosen at
\* pointer-down; entering a cell changes at most that one cell of the
\* bitmap, to the paint value, so that the cells entered before keep the
\* paint value and the cells never touched keep their value; entering a
\* cell that has the paint value leaves the history as it is; entering a
\* cell while no gesture is active changes nothing.
C23_DragPaints ==
  [][ EnterStep =>
        /\ paintValue' = paintValue
        /\ ~dragging => history' = history
        /\ dragging =>
             /\ Cardinality(CellsChanged(history'.present, history.present)) <= 1
             /\ \A cell \in CellsChanged(history'.present, history.present) :
                  rowsToGrid(history'.present)[cell[1]][cell[2]] = paintValue
             /\ CellsChanged(history'.present, history.present) = {}
                  => history' = history ]_vars

\* a step of renameSelected, overwriteSelected or deleteSelected: a rendered
\* event that writes the saved list or the store without generating an
\* identifier and without starting or ending a file read
ListEditStep ==
  /\ events' = events + 1
  /\ pending' = pending
  /\ nextId' = nextId
  /\ saves' # saves \/ store' # store

\* C24: renameSelected, overwriteSelected and deleteSelected act on the one
\* selected record of the list L they are given: either that record alone
\* is removed, the others staying in order, or L keeps its records and
\* order, no id or createdAt changes, and only the selected record changes,
\* in its name alone or in its rows, color, interfacing, datatype and
\* updatedAt alone.  With no record selected nothing is written.
C24_ListEditFrame ==
  [][ ListEditStep =>
        /\ view.selectedSaveId # ""
        /\ \E k \in DOMAIN view.saves :
             LET L == view.saves
             IN  /\ L[k].id = Str(view.selectedSaveId)
                 /\ \/ saves' = SubSeq(L, 1, k - 1) \o SubSeq(L, k + 1, Len(L))
                    \/ /\ Len(saves') = Len(L)
                       /\ \A j \in DOMAIN L : j # k => saves'[j] = L[j]
                       /\ saves'[k].id = L[k].id
                       /\ saves'[k].createdAt = L[k].createdAt
                       /\ \/ saves'[k] = [L[k] EXCEPT !.name = saves'[k].name]
                          \/ saves'[k].name = L[k].name ]_vars

\* the history and settings a fresh application has after its load effect
\* ran on the share fields u
FreshLoad(u) ==
  LET decoded == IF u.r.has /\ Len(u.r.s) > 0 THEN decodeRowsBase32(u.r.s) ELSE NoValue
  IN  [history |-> IF decoded # NoValue THEN resetHistory(decoded)
                   ELSE resetHistory(emptyRows),
       color |-> IF IsStr(u.c, "green") \/ IsStr(u.c, "blue") THEN u.c ELSE Str("green"),
       interfacing |-> IF IsStr(u.i, "parallel") \/ IsStr(u.i, "i2c") THEN u.i
                       ELSE Str("parallel"),
       datatype |-> IF IsStr(u.t, "bin") \/ IsStr(u.t, "hex") THEN u.t ELSE Str("bin")]

\* C25: in every state, a fresh application started from the share fields
\* r, c, i, t written for that state has the same present rows, no past, no
\* future, and the same color, interfacing and datatype.
C25_ShareRoundTrip ==
  phase = "ready" =>
    LET fresh == FreshLoad(ShareFields(CurrentView))
    IN  /\ fresh.history = [past |-> << >>, present |-> history.present, future |-> << >>]
        /\ fresh.color = color
        /\ fresh.interfacing = interfacing
        /\ fresh.datatype = datatype

\* the snapshots of a history in order: past, present, future
Timeline(h) == h.past \o << h.present >> \o h.future

\* C26: for every history, undo and redo leave the timeline (past, then
\* present, then future) the same sequence of snapshots; undo then redo,
\* when past is not empty, and redo then undo, when future is not empty,
\* give back the history itself.
C26_TimelineKept ==
  /\ Timeline(undo(history)) = Timeline(history)
  /\ Timeline(redo(history)) = Timeline(history)
  /\ Len(history.past) > 0 => redo(undo(history)) = history
  /\ Len(history.future) > 0 => undo(redo(history)) = history
  /\ last.op \in {"undo", "redo"} =>
       Len(Timeline(history)) = last.n0 + 1 + last.f0

\* C26 witness: after two edits, Undo and then Redo were clicked: the
\* history has its two past snapshots and no future again.
C26_Witness ==
  /\ last.op = "redo"
  /\ last.f0 = 1
  /\ last.n0 = 1
  /\ Len(history.past) = 2
  /\ history.future = << >>

\* C27: any two neighbouring snapshots of the timeline differ, so an undo
\* with a non-empty past and a redo with a non-empty future change present.
C27_NeighboursDiffer ==
  /\ \A k \in 1..(Len(Timeline(history)) - 1) :
       Timeline(history)[k] # Timeline(history)[k + 1]
  /\ Len(history.past) > 0 => undo(history).present # history.present
  /\ Len(history.future) > 0 => redo(history).present # history.present

\* C27 witness: Undo was clicked and both Undo and Redo are possible: the
\* history has a past and a future.
C27_Witness ==
  /\ last.op = "undo"
  /\ Len(history.past) > 0
  /\ Len(history.future) > 0
  /\ history.past[Len(history.past)] # history.present
  /\ history.future[1] # history.present

\* record a is record b as far as the user made it: identifier, name, rows
SameSave(a, b) == a.id = b.id /\ a.name = b.name /\ a.rows = b.rows

\* C28: when the callback of a list import runs (the file having been
\* chosen on the saved list as it then was), whatever was done to the
\* saved list since the file was chosen is kept: every record of the list
\* is in the list the callback writes, with its name and rows; every
\* record the callback writes after the imported ones is a record of the
\* list; the selected identifier, if any, names a record written; and the
\* store holds the list written.
C28_ImportKeepsEdits ==
  [][ \A p \in pending :
        (OnloadStep(p) /\ p.current /\ p.doc.parses /\ p.doc.savesIsArray) =>
          LET n == Len(SelectSeq(p.doc.saves, HasEightRows))
          IN  /\ \A k \in DOMAIN saves :
                   \E j \in DOMAIN saves' : j > n /\ SameSave(saves'[j], saves[k])
              /\ \A j \in DOMAIN saves' :
                   j > n => \E k \in DOMAIN saves : SameSave(saves'[j], saves[k])
              /\ selectedSaveId' # "" =>
                   \E j \in DOMAIN saves' : saves'[j].id = Str(selectedSaveId')
              /\ store' = persistSaves(saves') ]_vars

====
